---------------------------- MODULE Spec2Model ----------------------------
(***************************************************************************)
(* DeployR: matching of requested topologies to given topologies           *)
(* (DeployR::doBipartiteMatching), the variable-sized MPSC channel wrapper *)
(* (deployr::Channel) and the dispatch of runners (DeployR::deploy).       *)
(*                                                                         *)
(* HiCR (topologies, RPC engine, channels) and the Hopcroft-Karp graph are *)
(* subprojects that are not part of the sources; the operators that stand  *)
(* for them follow the design document and are marked as such.             *)
(***************************************************************************)
EXTENDS Integers, Sequences, FiniteSets, TLC

(***************************************************************************)
(* Bounds of the model                                                     *)
(***************************************************************************)
\* longest list of requested topologies
MaxRequested == 3
\* longest list of given topologies
MaxGiven == 3
\* number of instances of the instance manager
NumInstances == 3
\* longest runner list of a deployment
MaxRunners == 3
\* producers of the channel
NumProducers == 2
\* bufferCapacity of the channel: the most tokens it holds
BufferCapacity == 2
\* bufferSize of the channel: the bytes of its payload buffer
BufferSize == 3
\* longest token pushed
MaxTokenSize == 2
\* calls of push made by all producers together
MaxPushCalls == 4
\* longest runner list of a deployment that need not be valid
MaxAnyRunners == 2
\* most devices of one topology
MaxDevices == 3
\* calls of registerFunction, and invocations of registered names
MaxRegisterCalls == 3
MaxInvocations == 2

\* calls of initialize and registerFunction on one DeployR object
MaxReservedCalls == 3

VARIABLES
  \* ---- matcher ----
  requested,        \* argument of doBipartiteMatching
  given,            \* argument of doBipartiteMatching
  matching,         \* its return value (a sequence, element i+1 is m[i])
  matchPc,          \* "call" before the call, "returned" after it
  \* ---- deploy ----
  runners,               \* deployment.getRunners()
  coordinatorInstanceId, \* second argument of deploy
  registeredFunctions,   \* per instance: _registeredFunctions (its keys)
  deployPc,              \* per instance: where it is in deploy()
  runnerIdx,             \* position of the coordinator's loop over the runners
  coodinatorIsRunner,    \* local of deploy() on the coordinator
  initialFunction,       \* the coordinator's _initialFunction
  runnerId,              \* the coordinator's _runnerId
  pendingRPCs,           \* per instance: requests sent to it and not yet served
  requestsIssued,        \* every requestRPC made so far, in order
  executed,              \* per instance: entry functions started, in order
  \* ---- channel ----
  tokenSizeBuffer,       \* consumer: the sizes ring, one (position, size) per slot
  payloadBuffer,         \* consumer: the payload ring, one byte per position
  coordinationForSizes,    \* consumer: head and tail counters of the sizes ring
  coordinationForPayloads, \* consumer: head and tail counters of the payload ring
  producerCoordination,  \* per producer: its local copies of both coordination buffers
  channelLock,           \* the producer holding the channel's lock, 0 if none
  pushPc,                \* per producer: where it is in Channel::push
  pushBuffer,            \* per producer: the token of the push in progress
  pushCalls,             \* per producer: calls of push made so far
  lastPush,              \* per producer: what its latest call of push met and did
  pushed,                \* per producer: the tokens of its calls that returned true
  lastPeek,              \* the token returned by the latest peek since the last pop
  popped,                \* the tokens removed by pop, in order, as the consumer saw them
  \* ---- deploy(request) of deployr.hpp ----
  request,               \* the requested instances: host type topology and function
  hosts,                 \* topology of every instance of the instance manager, root first
  requestFunctions,      \* _registeredFunctions (its keys), the same on every instance
  requestPc,             \* where the root instance is in deploy(request)
  pairings,              \* per requested instance: 0-based index of its host
  launched,              \* per host: the initial function it has started, if any
  abortCode,             \* argument of _instanceManager->abort, 0 if not called
  \* ---- registerFunction ----
  functionTable,         \* _registeredFunctions: per name its closure, if any
  rpcTargets,            \* the RPC engine's targets: per name its closure, if any
  registerCalls,         \* the calls of registerFunction so far, with their outcome
  invocations,           \* the closures run so far, locally or by an RPC
  \* ---- Host::checkCompatibility ----
  hostTopology,          \* _topology of the host
  requiredTopology,      \* the topology asked for
  compatible,            \* the value returned
  compatPc,              \* "call" before the call, "returned" after it
  \* ---- Engine::createChannel ----
  producerIdxs,          \* argument of createChannel: the producers' instance indexes
  consumerIdx,           \* argument of createChannel: the consumer's instance index
  createChannelPc,       \* per instance index: "call", "fence" or "returned"
  exchangeCalls,         \* per instance index: calls of exchangeGlobalMemorySlots(channelTag, .)
  fenceCalls,            \* per instance index: calls of fence(channelTag)
  globalMemorySlots,     \* the slots registered under channelTag: key, owner, content
  resolvedSlots,         \* per instance index: the slots got by getGlobalMemorySlot
  channelInterface,      \* per instance index: the interface of the Channel returned
  channelCalls,          \* per instance index and operation of its Channel: "none",
                         \* "threw" (no interface for it) or "entered"
  \* ---- gatherGlobalTopology ----
  rootInstanceId,        \* first argument of gatherGlobalTopology
  instanceIds,           \* second argument of gatherGlobalTopology
  localTopologies,       \* per instance: its _localTopology
  gatherPc,              \* per instance: where it is in gatherGlobalTopology
  gatherIdx,             \* position of the root's loop over the instances
  globalTopology,        \* per instance: the vector it builds and returns
  returnValues,          \* per instance: the return value it has submitted, not yet taken
  topologyRequests,      \* targets of the root's Get Topology requests, in order
  gatherServed,          \* per instance: names served by the listen() of gatherGlobalTopology
  \* ---- inside the entry functions ----
  observedRunnerId,      \* per instance: what getRunnerId() has returned there, if called
  entryChannel,          \* per instance: tokens pending in the channel "Coordinator -> " it
  pushIdx,               \* position of coordinatorFc's loop over the channels
  \* ---- initialize() and registerFunction with any name ----
  rpcTargetMap,          \* the RPC engine's targets, the reserved name included
  userFunctions,         \* _registeredFunctions, the reserved name included
  reservedCalls,         \* the calls of initialize and registerFunction, with their outcome
  \* ---- deploy(request) on every instance ----
  instancePc,            \* per instance other than the root: where it is in deploy(request)
  rpcRequests,           \* per instance: the requests sent to it and not yet served
  rpcReturnValue,        \* per instance: the return value sent to it and not yet taken
  rootGlobalTopology,    \* the vector the root builds in gatherGlobalTopology()
  instanceDeployment,    \* per instance: its _deployment
  deploymentsServed,     \* the requests served by the root in broadcastDeployment()
  initialRuns            \* per instance: the initial functions it has run, in order

matchVars == <<requested, given, matching, matchPc>>

deployVars == <<runners, coordinatorInstanceId, registeredFunctions, deployPc, runnerIdx,
                coodinatorIsRunner, initialFunction, runnerId, pendingRPCs,
                requestsIssued, executed>>

chanVars == <<tokenSizeBuffer, payloadBuffer, coordinationForSizes, coordinationForPayloads,
              producerCoordination, channelLock, pushPc, pushBuffer, pushCalls, lastPush,
              pushed, lastPeek, popped>>

requestVars == <<request, hosts, requestFunctions, requestPc, pairings, launched, abortCode>>

registerVars == <<functionTable, rpcTargets, registerCalls, invocations>>

compatVars == <<hostTopology, requiredTopology, compatible, compatPc>>

handshakeVars == <<producerIdxs, consumerIdx, createChannelPc, exchangeCalls, fenceCalls,
                   globalMemorySlots, resolvedSlots, channelInterface, channelCalls>>

gatherVars == <<rootInstanceId, instanceIds, localTopologies, gatherPc, gatherIdx,
                globalTopology, returnValues, topologyRequests, gatherServed>>

entryVars == <<observedRunnerId, entryChannel, pushIdx>>

reservedVars == <<rpcTargetMap, userFunctions, reservedCalls>>

broadcastVars == <<instancePc, rpcRequests, rpcReturnValue, rootGlobalTopology,
                   instanceDeployment, deploymentsServed, initialRuns>>

vars == <<matchVars, deployVars, chanVars, requestVars, registerVars, compatVars,
          handshakeVars, gatherVars, entryVars, reservedVars, broadcastVars>>

\* what the actions of one part leave alone
notMatchVars ==
  <<deployVars, chanVars, requestVars, registerVars, compatVars, handshakeVars,
    gatherVars, entryVars, reservedVars, broadcastVars>>

notDeployVars ==
  <<matchVars, chanVars, requestVars, registerVars, compatVars, handshakeVars,
    gatherVars, entryVars, reservedVars, broadcastVars>>

notChanVars ==
  <<matchVars, deployVars, requestVars, registerVars, compatVars, handshakeVars,
    gatherVars, entryVars, reservedVars, broadcastVars>>

notRequestVars ==
  <<matchVars, deployVars, chanVars, registerVars, compatVars, handshakeVars,
    gatherVars, entryVars, reservedVars, broadcastVars>>

notRegisterVars ==
  <<matchVars, deployVars, chanVars, requestVars, compatVars, handshakeVars,
    gatherVars, entryVars, reservedVars, broadcastVars>>

notCompatVars ==
  <<matchVars, deployVars, chanVars, requestVars, registerVars, handshakeVars,
    gatherVars, entryVars, reservedVars, broadcastVars>>

\* gatherGlobalTopology uses the RPC queues of deploy: its actions say themselves
\* what they leave alone of deployVars
notGatherVars ==
  <<matchVars, chanVars, requestVars, registerVars, compatVars, handshakeVars, entryVars,
    reservedVars, broadcastVars>>

\* deploy(request) on every instance goes on from the root's deploy(request): its
\* actions say themselves what they leave alone of requestVars
notBroadcastVars ==
  <<matchVars, deployVars, chanVars, registerVars, compatVars, handshakeVars,
    gatherVars, entryVars, reservedVars>>

notHandshakeVars ==
  <<matchVars, deployVars, chanVars, requestVars, registerVars, compatVars,
    gatherVars, entryVars, reservedVars, broadcastVars>>

(***************************************************************************)
(* Helpers                                                                 *)
(***************************************************************************)
SeqsUpTo(S, n) == UNION {[1..k -> S] : k \in 0..n}

RECURSIVE SumSeq(_)
SumSeq(s) == IF s = <<>> THEN 0 ELSE Head(s) + SumSeq(Tail(s))

(***************************************************************************)
(* Topologies: a topology is a list of devices; a device has a type, a     *)
(* list of memory space sizes and a number of compute resources.           *)
(***************************************************************************)
Device(t, mems, crs) == [type |-> t, memorySpaces |-> mems, computeResources |-> crs]

smallTopology == << Device("cpu", <<4>>, 1) >>
bigTopology   == << Device("cpu", <<32, 32>>, 2) >>
gpuTopology   == << Device("gpu", <<4>>, 1) >>

TopologySet == {smallTopology, bigTopology, gpuTopology}

\* as deviceFits, but the host device must have more compute resources
deviceFits_strict(hostDevice, requiredDevice) ==
  /\ hostDevice.type = requiredDevice.type
  /\ SumSeq(hostDevice.memorySpaces) >= SumSeq(requiredDevice.memorySpaces)
  /\ hostDevice.computeResources > requiredDevice.computeResources

deviceFits(hostDevice, requiredDevice) ==
  /\ hostDevice.type = requiredDevice.type
  /\ SumSeq(hostDevice.memorySpaces) >= SumSeq(requiredDevice.memorySpaces)
  /\ hostDevice.computeResources >= requiredDevice.computeResources

\* first host device, in declaration order, that is not consumed and fits; 0 if none
firstFit(host, consumed, requiredDevice) ==
  LET fits == {k \in 1..Len(host) : k \notin consumed /\ deviceFits(host[k], requiredDevice)}
  IN IF fits = {} THEN 0 ELSE CHOOSE k \in fits : \A l \in fits : k <= l

RECURSIVE isSubsetFrom(_, _, _, _)
isSubsetFrom(host, required, r, consumed) ==
  IF r > Len(required) THEN TRUE
  ELSE LET k == firstFit(host, consumed, required[r])
       IN IF k = 0 THEN FALSE
          ELSE isSubsetFrom(host, required, r + 1, consumed \cup {k})

\* HiCR::Topology::isSubset(host, required)
isSubset(host, required) == isSubsetFrom(host, required, 1, {})

(***************************************************************************)
(* theAlgorithms::graph::HKGraph: Hopcroft-Karp on a bipartite graph with  *)
(* left vertices 1..m, right vertices 1..n and the dummy vertex NIL.       *)
(* The caller adds edge (i, j) with 0-based indexes and reads              *)
(* getLeftSidePairings() at index i + 1 as a 0-based right index.          *)
(***************************************************************************)
NIL == 0

\* dist[] of a vertex that is not in the layer graph
INF == MaxRequested + MaxGiven + 2

\* getLeftSidePairings() of a vertex without pair
NoPair == 0 - 1

\* HKGraph::bfs, the loop over the neighbours of u
RECURSIVE bfsScan(_, _, _, _, _, _)
bfsScan(adjU, k, u, pairV, dist, q) ==
  IF k > Len(adjU) THEN [dist |-> dist, q |-> q]
  ELSE LET w == pairV[adjU[k]]
       IN IF dist[w] = INF
          THEN bfsScan(adjU, k + 1, u, pairV, [dist EXCEPT ![w] = dist[u] + 1], Append(q, w))
          ELSE bfsScan(adjU, k + 1, u, pairV, dist, q)

\* HKGraph::bfs, the loop over the queue
RECURSIVE bfsLoop(_, _, _, _)
bfsLoop(adj, pairV, dist, q) ==
  IF q = <<>> THEN dist
  ELSE LET u == Head(q)
       IN IF dist[u] < dist[NIL]
          THEN LET r == bfsScan(adj[u], 1, u, pairV, dist, Tail(q))
               IN bfsLoop(adj, pairV, r.dist, r.q)
          ELSE bfsLoop(adj, pairV, dist, Tail(q))

\* free left vertices in increasing order
RECURSIVE freeLeft(_, _, _)
freeLeft(pairU, u, m) ==
  IF u > m THEN <<>>
  ELSE (IF pairU[u] = NIL THEN <<u>> ELSE <<>>) \o freeLeft(pairU, u + 1, m)

\* HKGraph::bfs: the layer distances; an augmenting path exists iff dist[NIL] # INF
bfs(adj, m, pairU, pairV) ==
  LET dist0 == [u \in 0..m |-> IF u # NIL /\ pairU[u] = NIL THEN 0 ELSE INF]
  IN bfsLoop(adj, pairV, dist0, freeLeft(pairU, 1, m))

\* HKGraph::dfs
RECURSIVE dfs(_, _, _, _, _), dfsScan(_, _, _, _, _, _)
dfs(adj, u, pairU, pairV, dist) ==
  IF u = NIL THEN [ok |-> TRUE, pairU |-> pairU, pairV |-> pairV, dist |-> dist]
  ELSE dfsScan(adj, u, 1, pairU, pairV, dist)

dfsScan(adj, u, k, pairU, pairV, dist) ==
  IF k > Len(adj[u])
  THEN [ok |-> FALSE, pairU |-> pairU, pairV |-> pairV, dist |-> [dist EXCEPT ![u] = INF]]
  ELSE LET v == adj[u][k]
       IN IF dist[pairV[v]] = dist[u] + 1
          THEN LET r == dfs(adj, pairV[v], pairU, pairV, dist)
               IN IF r.ok
                  THEN [ok |-> TRUE,
                        pairU |-> [r.pairU EXCEPT ![u] = v],
                        pairV |-> [r.pairV EXCEPT ![v] = u],
                        dist |-> r.dist]
                  ELSE dfsScan(adj, u, k + 1, r.pairU, r.pairV, r.dist)
          ELSE dfsScan(adj, u, k + 1, pairU, pairV, dist)

\* one phase of hopcroftKarpAlgorithm: dfs from every free left vertex, in order
RECURSIVE hkPhase(_, _, _, _)
hkPhase(adj, m, u, st) ==
  IF u > m THEN st
  ELSE IF st.pairU[u] = NIL
       THEN LET r == dfs(adj, u, st.pairU, st.pairV, st.dist)
            IN hkPhase(adj, m, u + 1,
                       [pairU |-> r.pairU, pairV |-> r.pairV, dist |-> r.dist,
                        result |-> IF r.ok THEN st.result + 1 ELSE st.result])
       ELSE hkPhase(adj, m, u + 1, st)

RECURSIVE hkLoop(_, _, _)
hkLoop(adj, m, st) ==
  LET dist == bfs(adj, m, st.pairU, st.pairV)
  IN IF dist[NIL] = INF THEN st
     ELSE hkLoop(adj, m, hkPhase(adj, m, 1, [st EXCEPT !.dist = dist]))

\* HKGraph::hopcroftKarpAlgorithm on the graph with adjacency lists adj:
\* the final pairs and, in result, the size of the matching
hopcroftKarpAlgorithm(adj, m, n) ==
  hkLoop(adj, m, [pairU |-> [u \in 0..m |-> NIL], pairV |-> [v \in 0..n |-> NIL],
                  dist |-> [u \in 0..m |-> INF], result |-> 0])

\* HKGraph::getLeftSidePairings: indexed by the left vertex, 0 is NIL
getLeftSidePairings(hk, m) ==
  [u \in 0..m |-> IF u = NIL \/ hk.pairU[u] = NIL THEN NoPair ELSE hk.pairU[u] - 1]


(***************************************************************************)
(* DeployR::doBipartiteMatching                                            *)
(***************************************************************************)
\* the graph built by the two loops: edge (i, j) iff isSubset(given[j], requested[i]);
\* adj[u] lists the right vertices of left vertex u = i + 1 in the order added
matchingGraph(req, giv) ==
  [u \in 1..Len(req) |->
     LET RECURSIVE scan(_)
         scan(v) == IF v > Len(giv) THEN <<>>
                    ELSE (IF isSubset(giv[v], req[u]) THEN <<v>> ELSE <<>>) \o scan(v + 1)
     IN scan(1)]

\* as doBipartiteMatching, reading the pairings at index i instead of i + 1
doBipartiteMatching_index(req, giv) ==
  LET m  == Len(req)
      hk == hopcroftKarpAlgorithm(matchingGraph(req, giv), m, Len(giv))
      graphPairings == getLeftSidePairings(hk, m)
  IN IF hk.result < m THEN <<>> ELSE [k \in 1..m |-> graphPairings[k - 1]]

\* as doBipartiteMatching, without the test of the match count
doBipartiteMatching_nocount(req, giv) ==
  LET m  == Len(req)
      hk == hopcroftKarpAlgorithm(matchingGraph(req, giv), m, Len(giv))
      graphPairings == getLeftSidePairings(hk, m)
  IN [k \in 1..m |-> graphPairings[k]]

\* the returned vector as a sequence: element i + 1 is pairingsVector[i];
\* the empty sequence is the empty vector
doBipartiteMatching(req, giv) ==
  LET m  == Len(req)
      hk == hopcroftKarpAlgorithm(matchingGraph(req, giv), m, Len(giv))
      graphPairings == getLeftSidePairings(hk, m)
  IN IF hk.result < m THEN <<>> ELSE [k \in 1..m |-> graphPairings[k]]

(***************************************************************************)
(* The matcher applied to every pair of lists within the bounds            *)
(***************************************************************************)
MatchInit ==
  /\ requested \in SeqsUpTo(TopologySet, MaxRequested)
  /\ given \in SeqsUpTo(TopologySet, MaxGiven)
  /\ matching = <<>>
  /\ matchPc = "call"

MatchIdle ==
  /\ requested = <<>>
  /\ given = <<>>
  /\ matching = <<>>
  /\ matchPc = "returned"

Match ==
  /\ matchPc = "call"
  /\ matching' = doBipartiteMatching(requested, given)
  /\ matchPc' = "returned"
  /\ UNCHANGED <<requested, given>>
  /\ UNCHANGED notMatchVars

(***************************************************************************)
(* Claims on the matcher                                                   *)
(***************************************************************************)
\* the bipartite graph of the claim: requested i+1 may go to given j+1
Edge(u, v) == isSubset(given[v], requested[u])

\* some injective map of all requested topologies to given ones along edges
PerfectMatchingExists ==
  \E f \in [1..Len(requested) -> 1..Len(given)] :
     /\ \A u \in 1..Len(requested) : Edge(u, f[u])
     /\ \A u1, u2 \in 1..Len(requested) : u1 # u2 => f[u1] # f[u2]

\* the call returned an assignment (for an empty request the empty one)
ReturnedAssignment == matchPc = "returned" /\ Len(matching) = Len(requested)

\* C3: an assignment returned by doBipartiteMatching has one entry per requested
\* topology, each a valid 0-based index into given whose topology contains the
\* requested one, and no two entries are equal
C3_MatchingSound ==
  (matchPc = "returned" /\ matching # <<>>) =>
     /\ Len(matching) = Len(requested)
     /\ \A k \in 1..Len(matching) :
          /\ matching[k] \in 0..(Len(given) - 1)
          /\ isSubset(given[matching[k] + 1], requested[k])
     /\ \A k1, k2 \in 1..Len(matching) : k1 # k2 => matching[k1] # matching[k2]

\* an assignment of three requested topologies, not the identity, has been returned
C3_Witness ==
  /\ matchPc = "returned"
  /\ Len(matching) = 3
  /\ \E k \in 1..3 : matching[k] # k - 1

\* C4: doBipartiteMatching returns an assignment for every requested topology
\* iff the graph has a matching of size |requested|; otherwise the empty vector
C4_MatchingComplete ==
  matchPc = "returned" =>
     /\ ReturnedAssignment <=> PerfectMatchingExists
     /\ ~PerfectMatchingExists => matching = <<>>
     /\ Len(requested) > Len(given) => matching = <<>>

\* a matching that needs an augmenting path through an already matched vertex
C4_Witness ==
  /\ matchPc = "returned"
  /\ requested = <<smallTopology, smallTopology, bigTopology>>
  /\ given = <<bigTopology, smallTopology, smallTopology>>
  /\ Len(matching) = 3

\* no matching although every requested topology has an edge
C4_WitnessNone ==
  /\ matchPc = "returned"
  /\ requested = <<smallTopology, bigTopology, bigTopology>>
  /\ given = <<bigTopology, smallTopology, smallTopology>>
  /\ matching = <<>>

\* C19: for requested = [small, small, big] and given = [big, small, small] the
\* matcher returns exactly requested[0] -> given[1], requested[1] -> given[2],
\* requested[2] -> given[0]; for given = [small, small, small] it returns no
\* matching
C19_ScenarioS2 ==
  /\ ( /\ matchPc = "returned"
       /\ requested = <<smallTopology, smallTopology, bigTopology>>
       /\ given = <<bigTopology, smallTopology, smallTopology>> )
        => matching = <<1, 2, 0>>
  /\ ( /\ matchPc = "returned"
       /\ requested = <<smallTopology, smallTopology, bigTopology>>
       /\ given = <<smallTopology, smallTopology, smallTopology>> )
        => matching = <<>>


(***************************************************************************)
(* DeployR::deploy(deployment, coordinatorInstanceId)                      *)
(***************************************************************************)
\* the instances of the instance manager
Instances == 1..NumInstances

\* ids a runner may carry
RunnerIds == 0..(MaxRunners - 1)

FunctionNames == {"LeaderFc", "WorkerFc"}

\* deployr::Runner(id, function, instanceId)
Runner(id, function, instanceId) == [id |-> id, function |-> function, instanceId |-> instanceId]

RunnerSet == {Runner(id, fn, inst) : id \in RunnerIds, fn \in FunctionNames, inst \in Instances}

\* no request, no entry function
NoFunction == ""

\* value of a field that has not been assigned
Unassigned == "unassigned"

\* as sanityCheckPasses, but instanceIds collects runner.getInstanceId()
sanityCheckPasses_instanceIds(rs) ==
  Len(rs) = Cardinality({rs[k].instanceId : k \in 1..Len(rs)})

\* the sanity check at the head of deploy(): the set called instanceIds collects
\* runner.getId() of every runner and is compared in size with the runner list
sanityCheckPasses(rs) == Len(rs) = Cardinality({rs[k].id : k \in 1..Len(rs)})

\* RPCEngine::requestRPC(instance, name, argument): the request joins the
\* requests pending at the target instance
requestRPC(pending, target, name, argument) ==
  [pending EXCEPT ![target] = Append(@, [function |-> name, argument |-> argument])]

\* deploy() from its entry to the bifurcation point: a throw on a repeated id,
\* listen() on a non-coordinator, the dispatch loop on the coordinator
CallDeploy(i) ==
  /\ deployPc[i] = "start"
  /\ deployPc' = [deployPc EXCEPT ![i] =
        IF ~sanityCheckPasses(runners) THEN "threw"
        ELSE IF i # coordinatorInstanceId THEN "listening"
        ELSE "dispatching"]
  /\ UNCHANGED <<runners, coordinatorInstanceId, registeredFunctions, runnerIdx,
                 coodinatorIsRunner, initialFunction, runnerId, pendingRPCs,
                 requestsIssued, executed>>
  /\ UNCHANGED notDeployVars

\* as Dispatch, but the coordinator's own entry function is started as soon as
\* its runner is met in the loop
Dispatch_runAtOnce ==
  LET c == coordinatorInstanceId
      r == runners[runnerIdx]
  IN /\ deployPc[c] = "dispatching"
     /\ runnerIdx <= Len(runners)
     /\ runnerIdx' = runnerIdx + 1
     /\ IF r.instanceId \notin Instances
        THEN /\ deployPc' = [deployPc EXCEPT ![c] = "threw"]
             /\ UNCHANGED <<coodinatorIsRunner, initialFunction, runnerId, pendingRPCs,
                            requestsIssued, executed>>
        ELSE IF r.instanceId = c
        THEN /\ coodinatorIsRunner' = TRUE
             /\ initialFunction' = r.function
             /\ runnerId' = r.id
             /\ executed' = [executed EXCEPT ![c] =
                   Append(@, [function |-> r.function, runnerId |-> r.id, via |-> "local"])]
             /\ UNCHANGED <<deployPc, pendingRPCs, requestsIssued>>
        ELSE /\ pendingRPCs' = requestRPC(pendingRPCs, r.instanceId, r.function, r.id)
             /\ requestsIssued' = Append(requestsIssued,
                   [target |-> r.instanceId, function |-> r.function, argument |-> r.id])
             /\ UNCHANGED <<deployPc, coodinatorIsRunner, initialFunction, runnerId, executed>>
     /\ UNCHANGED <<runners, coordinatorInstanceId, registeredFunctions>>
     /\ UNCHANGED notDeployVars

\* as Dispatch, but the request carries the instance id in place of the runner id
Dispatch_wrongArgument ==
  LET c == coordinatorInstanceId
      r == runners[runnerIdx]
  IN /\ deployPc[c] = "dispatching"
     /\ runnerIdx <= Len(runners)
     /\ runnerIdx' = runnerIdx + 1
     /\ IF r.instanceId \notin Instances
        THEN /\ deployPc' = [deployPc EXCEPT ![c] = "threw"]
             /\ UNCHANGED <<coodinatorIsRunner, initialFunction, runnerId, pendingRPCs,
                            requestsIssued>>
        ELSE IF r.instanceId = c
        THEN /\ coodinatorIsRunner' = TRUE
             /\ initialFunction' = r.function
             /\ runnerId' = r.id
             /\ UNCHANGED <<deployPc, pendingRPCs, requestsIssued>>
        ELSE /\ pendingRPCs' = requestRPC(pendingRPCs, r.instanceId, r.function, r.instanceId)
             /\ requestsIssued' = Append(requestsIssued,
                   [target |-> r.instanceId, function |-> r.function, argument |-> r.instanceId])
             /\ UNCHANGED <<deployPc, coodinatorIsRunner, initialFunction, runnerId>>
     /\ UNCHANGED <<runners, coordinatorInstanceId, registeredFunctions, executed>>
     /\ UNCHANGED notDeployVars

\* as Dispatch, but a runner is dispatched only when the entry functions of the
\* runners dispatched before it have returned
Dispatch_blocking ==
  LET c == coordinatorInstanceId
      r == runners[runnerIdx]
  IN /\ deployPc[c] = "dispatching"
     /\ runnerIdx <= Len(runners)
     /\ \A k \in 1..(runnerIdx - 1) :
           runners[k].instanceId \in Instances \ {c}
              => deployPc[runners[k].instanceId] = "returned"
     /\ runnerIdx' = runnerIdx + 1
     /\ IF r.instanceId \notin Instances
        THEN \* instanceMap.contains(instanceId) == false
             /\ deployPc' = [deployPc EXCEPT ![c] = "threw"]
             /\ UNCHANGED <<coodinatorIsRunner, initialFunction, runnerId, pendingRPCs,
                            requestsIssued>>
        ELSE IF r.instanceId = c
        THEN \* the pairing refers to this host: remember it, delay execution
             /\ coodinatorIsRunner' = TRUE
             /\ initialFunction' = r.function
             /\ runnerId' = r.id
             /\ UNCHANGED <<deployPc, pendingRPCs, requestsIssued>>
        ELSE /\ pendingRPCs' = requestRPC(pendingRPCs, r.instanceId, r.function, r.id)
             /\ requestsIssued' = Append(requestsIssued,
                   [target |-> r.instanceId, function |-> r.function, argument |-> r.id])
             /\ UNCHANGED <<deployPc, coodinatorIsRunner, initialFunction, runnerId>>
     /\ UNCHANGED <<runners, coordinatorInstanceId, registeredFunctions, executed>>
     /\ UNCHANGED notDeployVars

\* one iteration of the loop "Sending RPCs to the paired hosts to start deployment"
Dispatch ==
  LET c == coordinatorInstanceId
      r == runners[runnerIdx]
  IN /\ deployPc[c] = "dispatching"
     /\ runnerIdx <= Len(runners)
     /\ runnerIdx' = runnerIdx + 1
     /\ IF r.instanceId \notin Instances
        THEN \* instanceMap.contains(instanceId) == false
             /\ deployPc' = [deployPc EXCEPT ![c] = "threw"]
             /\ UNCHANGED <<coodinatorIsRunner, initialFunction, runnerId, pendingRPCs,
                            requestsIssued>>
        ELSE IF r.instanceId = c
        THEN \* the pairing refers to this host: remember it, delay execution
             /\ coodinatorIsRunner' = TRUE
             /\ initialFunction' = r.function
             /\ runnerId' = r.id
             /\ UNCHANGED <<deployPc, pendingRPCs, requestsIssued>>
        ELSE /\ pendingRPCs' = requestRPC(pendingRPCs, r.instanceId, r.function, r.id)
             /\ requestsIssued' = Append(requestsIssued,
                   [target |-> r.instanceId, function |-> r.function, argument |-> r.id])
             /\ UNCHANGED <<deployPc, coodinatorIsRunner, initialFunction, runnerId>>
     /\ UNCHANGED <<runners, coordinatorInstanceId, registeredFunctions, executed>>
     /\ UNCHANGED notDeployVars

\* the end of deploy() on the coordinator: runInitialFunction() if a runner was
\* assigned to it (a fatal exception if its function is not registered)
RunInitialFunction ==
  LET c == coordinatorInstanceId
  IN /\ deployPc[c] = "dispatching"
     /\ runnerIdx > Len(runners)
     /\ IF ~coodinatorIsRunner
        THEN /\ deployPc' = [deployPc EXCEPT ![c] = "returned"]
             /\ UNCHANGED executed
        ELSE IF initialFunction \notin registeredFunctions[c]
        THEN /\ deployPc' = [deployPc EXCEPT ![c] = "fatal"]
             /\ UNCHANGED executed
        ELSE /\ deployPc' = [deployPc EXCEPT ![c] = "running"]
             /\ executed' = [executed EXCEPT ![c] =
                   Append(@, [function |-> initialFunction, runnerId |-> runnerId,
                              via |-> "local"])]
     /\ UNCHANGED <<runners, coordinatorInstanceId, registeredFunctions, runnerIdx,
                    coodinatorIsRunner, initialFunction, runnerId, pendingRPCs,
                    requestsIssued>>
     /\ UNCHANGED notDeployVars

\* as Listen, but every pending request is taken from the queue
Listen_drain(i) ==
  /\ deployPc[i] = "listening"
  /\ pendingRPCs[i] # <<>>
  /\ LET rpc == Head(pendingRPCs[i])
     IN /\ pendingRPCs' = [pendingRPCs EXCEPT ![i] = <<>>]
        /\ IF rpc.function \in registeredFunctions[i]
           THEN /\ deployPc' = [deployPc EXCEPT ![i] = "running"]
                /\ executed' = [executed EXCEPT ![i] =
                      Append(@, [function |-> rpc.function, runnerId |-> rpc.argument,
                                 via |-> "rpc"])]
           ELSE /\ deployPc' = [deployPc EXCEPT ![i] = "returned"]
                /\ UNCHANGED executed
  /\ UNCHANGED <<runners, coordinatorInstanceId, registeredFunctions, runnerIdx,
                 coodinatorIsRunner, initialFunction, runnerId, requestsIssued>>
  /\ UNCHANGED notDeployVars

\* RPCEngine::listen() on a non-coordinator: it serves the oldest pending request
\* by starting the target registered under its name, with the request's argument
\* as getRPCArgument(); a name without target starts nothing
Listen(i) ==
  /\ deployPc[i] = "listening"
  /\ pendingRPCs[i] # <<>>
  /\ LET rpc == Head(pendingRPCs[i])
     IN /\ pendingRPCs' = [pendingRPCs EXCEPT ![i] = Tail(@)]
        /\ IF rpc.function \in registeredFunctions[i]
           THEN /\ deployPc' = [deployPc EXCEPT ![i] = "running"]
                /\ executed' = [executed EXCEPT ![i] =
                      Append(@, [function |-> rpc.function, runnerId |-> rpc.argument,
                                 via |-> "rpc"])]
           ELSE /\ deployPc' = [deployPc EXCEPT ![i] = "returned"]
                /\ UNCHANGED executed
  /\ UNCHANGED <<runners, coordinatorInstanceId, registeredFunctions, runnerIdx,
                 coodinatorIsRunner, initialFunction, runnerId, requestsIssued>>
  /\ UNCHANGED notDeployVars

\* the entry function returns, and with it listen() or runInitialFunction(), and deploy()
EntryReturns(i) ==
  /\ deployPc[i] = "running"
  /\ deployPc' = [deployPc EXCEPT ![i] = "returned"]
  /\ UNCHANGED <<runners, coordinatorInstanceId, registeredFunctions, runnerIdx,
                 coodinatorIsRunner, initialFunction, runnerId, pendingRPCs,
                 requestsIssued, executed>>
  /\ UNCHANGED notDeployVars

\* injective sequences of length n over S
InjectiveSeqs(S, n) == {f \in [1..n -> S] : \A k1, k2 \in 1..n : k1 # k2 => f[k1] # f[k2]}

\* lists of n pairwise distinct runner ids: 0, 1, ... counted from any start
RunnerIdLists(n) ==
  {[k \in 1..n |-> (k - 1 + shift) % MaxRunners] : shift \in RunnerIds}

\* runner lists with pairwise distinct ids and pairwise distinct instance ids,
\* every instance id one of the instance manager
ValidDeployments ==
  UNION {{[k \in 1..n |-> Runner(ids[k], fns[k], insts[k])] :
            ids \in RunnerIdLists(n),
            fns \in [1..n -> FunctionNames],
            insts \in InjectiveSeqs(Instances, n)} : n \in 0..MaxRunners}

DeployStart ==
  /\ deployPc = [i \in Instances |-> "start"]
  /\ runnerIdx = 1
  /\ coodinatorIsRunner = FALSE
  /\ initialFunction = NoFunction
  /\ runnerId = Unassigned
  /\ pendingRPCs = [i \in Instances |-> <<>>]
  /\ requestsIssued = <<>>
  /\ executed = [i \in Instances |-> <<>>]

\* a valid deployment, every function registered on every instance
DeployInit ==
  /\ runners \in ValidDeployments
  /\ coordinatorInstanceId \in Instances
  /\ registeredFunctions = [i \in Instances |-> FunctionNames]
  /\ DeployStart

\* runners of any kind: also of an instance the instance manager does not have
AnyRunnerSet ==
  {Runner(id, fn, inst) : id \in RunnerIds, fn \in FunctionNames,
                          inst \in 1..(NumInstances + 1)}

\* runner lists of any kind: ids and instance ids may repeat
AnyDeployments == UNION {[1..n -> AnyRunnerSet] : n \in 0..MaxAnyRunners}

\* what registerFunction has left on the instances: both functions everywhere,
\* or "WorkerFc" missing on one instance
AnyRegistrations ==
  {[i \in Instances |-> FunctionNames]}
  \cup {[i \in Instances |-> IF i = j THEN {"LeaderFc"} ELSE FunctionNames] : j \in Instances}

\* any deployment, valid or not, and any of the registrations
DeployAnyInit ==
  /\ runners \in AnyDeployments
  /\ coordinatorInstanceId \in Instances
  /\ registeredFunctions \in AnyRegistrations
  /\ DeployStart

DeployIdle ==
  /\ runners = <<>>
  /\ coordinatorInstanceId = 1
  /\ registeredFunctions = [i \in Instances |-> FunctionNames]
  /\ DeployStart

(***************************************************************************)
(* The channel: HiCR's variable-sized MPSC locking channel, used through   *)
(* deployr::Channel.  The consumer owns the sizes ring, the payload ring   *)
(* and the two coordination buffers; every producer keeps local copies of  *)
(* the coordination buffers, which it reads from and writes to the         *)
(* consumer's under the channel's lock.                                    *)
(***************************************************************************)
Producers == 1..NumProducers

\* the token of the n-th call of push by producer p: every byte names p and n
Token(p, n, size) == [k \in 1..size |-> 10 * p + n]

\* the bytes tokens are made of
TokenBytes == {10 * p + n : p \in Producers, n \in 1..MaxPushCalls}

\* what a read past the end of the payload buffer may yield
OutOfBufferBytes == TokenBytes \cup {0}

\* a coordination buffer with both counters at zero
initializeCoordinationBuffer == [head |-> 0, tail |-> 0]

\* tokens pushed and not popped, bytes of them, and the bytes left
pendingTokens == coordinationForSizes.head - coordinationForSizes.tail

usedPayloadBytes == coordinationForPayloads.head - coordinationForPayloads.tail

freePayloadBytes == BufferSize - usedPayloadBytes

\* Producer::isFull(): the producer's local copy says bufferCapacity tokens pending
isFull(p) ==
  producerCoordination[p].sizes.head - producerCoordination[p].sizes.tail = BufferCapacity

\* Consumer::isEmpty()
isEmpty == pendingTokens = 0

\* the payload ring after the bytes are written from position headPosition on
writePayload(ring, headPosition, bytes) ==
  [x \in 0..(BufferSize - 1) |->
     LET ks == {k \in 1..Len(bytes) : (headPosition + k - 1) % BufferSize = x}
     IN IF ks = {} THEN ring[x] ELSE bytes[CHOOSE k \in ks : TRUE]]

\* Producer::push(slot, 1), under the lock: the channel after it, whether the
\* token was published, and whether it was refused for bufferCapacity tokens pending
producerPush(bytes) ==
  LET headPosition == coordinationForPayloads.head % BufferSize
      slot         == coordinationForSizes.head % BufferCapacity
  IN IF pendingTokens = BufferCapacity \/ freePayloadBytes < Len(bytes)
     THEN [success  |-> FALSE,
           full     |-> pendingTokens = BufferCapacity,
           sizes    |-> tokenSizeBuffer,
           payload  |-> payloadBuffer,
           forSizes |-> coordinationForSizes,
           forPayloads |-> coordinationForPayloads]
     ELSE [success  |-> TRUE,
           full     |-> FALSE,
           sizes    |-> [tokenSizeBuffer EXCEPT
                           ![slot] = [position |-> headPosition, size |-> Len(bytes)]],
           payload  |-> writePayload(payloadBuffer, headPosition, bytes),
           forSizes |-> [coordinationForSizes EXCEPT !.head = @ + 1],
           forPayloads |-> [coordinationForPayloads EXCEPT !.head = @ + Len(bytes)]]

\* as consumerPeek, but of the newest token
consumerPeek_newest == tokenSizeBuffer[(coordinationForSizes.head - 1) % BufferCapacity]

\* Consumer::peek(): position and size of the oldest token
consumerPeek == tokenSizeBuffer[coordinationForSizes.tail % BufferCapacity]

\* what Channel::push has met and done when nothing was pushed yet
NoPush ==
  [size |-> 0, pendingAtTest |-> 0, freeAtTest |-> BufferSize,
   reachedWrite |-> FALSE, pendingAtWrite |-> 0, freeAtWrite |-> BufferSize,
   returned |-> "none", published |-> FALSE, foundFull |-> FALSE]

\* token_t { .success = false, .buffer = nullptr, .size = 0 }
NoToken == [success |-> FALSE, position |-> 0, size |-> 0, bytes |-> <<>>]

\* as PushCall, but a push that finds the channel full waits until it is not
PushCall_wait(p) ==
  /\ pushPc[p] = "idle"
  /\ SumSeq(pushCalls) < MaxPushCalls
  /\ ~isFull(p)
  /\ \E size \in 1..MaxTokenSize :
        /\ lastPush' = [lastPush EXCEPT ![p] =
              [NoPush EXCEPT !.size = size,
                             !.pendingAtTest = pendingTokens,
                             !.freeAtTest = freePayloadBytes]]
        /\ pushPc' = [pushPc EXCEPT ![p] = "pushing"]
        /\ pushBuffer' = [pushBuffer EXCEPT ![p] = Token(p, pushCalls[p] + 1, size)]
  /\ pushCalls' = [pushCalls EXCEPT ![p] = @ + 1]
  /\ UNCHANGED <<tokenSizeBuffer, payloadBuffer, coordinationForSizes,
                 coordinationForPayloads, producerCoordination, channelLock, pushed,
                 lastPeek, popped>>
  /\ UNCHANGED notChanVars

\* Channel::push(buffer, size), up to the call of the producer interface's push:
\* false is returned if isFull()
PushCall(p) ==
  /\ pushPc[p] = "idle"
  /\ SumSeq(pushCalls) < MaxPushCalls
  /\ \E size \in 1..MaxTokenSize :
        LET met == [NoPush EXCEPT !.size = size,
                                  !.pendingAtTest = pendingTokens,
                                  !.freeAtTest = freePayloadBytes]
        IN IF isFull(p)
           THEN /\ lastPush' = [lastPush EXCEPT ![p] = [met EXCEPT !.returned = "false"]]
                /\ UNCHANGED <<pushPc, pushBuffer>>
           ELSE /\ lastPush' = [lastPush EXCEPT ![p] = met]
                /\ pushPc' = [pushPc EXCEPT ![p] = "pushing"]
                /\ pushBuffer' = [pushBuffer EXCEPT ![p] = Token(p, pushCalls[p] + 1, size)]
  /\ pushCalls' = [pushCalls EXCEPT ![p] = @ + 1]
  /\ UNCHANGED <<tokenSizeBuffer, payloadBuffer, coordinationForSizes,
                 coordinationForPayloads, producerCoordination, channelLock, pushed,
                 lastPeek, popped>>
  /\ UNCHANGED notChanVars

\* the producer interface's push obtains the channel's lock
PushAcquire(p) ==
  /\ pushPc[p] = "pushing"
  /\ channelLock = 0
  /\ channelLock' = p
  /\ pushPc' = [pushPc EXCEPT ![p] = "locked"]
  /\ UNCHANGED <<tokenSizeBuffer, payloadBuffer, coordinationForSizes,
                 coordinationForPayloads, producerCoordination, pushBuffer, pushCalls,
                 lastPush, pushed, lastPeek, popped>>
  /\ UNCHANGED notChanVars

\* the producer interface's push under the lock, and the rest of Channel::push:
\* its result is not looked at, and true is returned
PushWrite(p) ==
  /\ pushPc[p] = "locked"
  /\ LET r == producerPush(pushBuffer[p])
     IN /\ tokenSizeBuffer' = r.sizes
        /\ payloadBuffer' = r.payload
        /\ coordinationForSizes' = r.forSizes
        /\ coordinationForPayloads' = r.forPayloads
        /\ producerCoordination' = [producerCoordination EXCEPT
              ![p] = [sizes |-> r.forSizes, payloads |-> r.forPayloads]]
        /\ lastPush' = [lastPush EXCEPT ![p] = [@ EXCEPT !.reachedWrite = TRUE,
                                                         !.pendingAtWrite = pendingTokens,
                                                         !.freeAtWrite = freePayloadBytes,
                                                         !.returned = "true",
                                                         !.published = r.success,
                                                         !.foundFull = r.full]]
  /\ channelLock' = 0
  /\ pushPc' = [pushPc EXCEPT ![p] = "idle"]
  /\ pushed' = [pushed EXCEPT ![p] = Append(@, pushBuffer[p])]
  /\ pushBuffer' = [pushBuffer EXCEPT ![p] = <<>>]
  /\ UNCHANGED <<pushCalls, lastPeek, popped>>
  /\ UNCHANGED notChanVars

\* Channel::peek(): no token if isEmpty(); else size bytes from &tokenBuffer[tokenPos]
\* on. The bytes are read here; those past the end of the payload buffer are not
\* bytes of the buffer
Peek ==
  /\ IF isEmpty
     THEN lastPeek' = NoToken
     ELSE LET result    == consumerPeek
              tokenPos  == result.position
              tokenSize == result.size
              outside   == {k \in 1..tokenSize : tokenPos + k - 1 >= BufferSize}
          IN \E beyond \in [outside -> OutOfBufferBytes] :
                lastPeek' = [success  |-> TRUE,
                             position |-> tokenPos,
                             size     |-> tokenSize,
                             bytes    |-> [k \in 1..tokenSize |->
                                             IF k \in outside THEN beyond[k]
                                             ELSE payloadBuffer[tokenPos + k - 1]]]
  /\ UNCHANGED <<tokenSizeBuffer, payloadBuffer, coordinationForSizes,
                 coordinationForPayloads, producerCoordination, channelLock, pushPc,
                 pushBuffer, pushCalls, lastPush, pushed, popped>>
  /\ UNCHANGED notChanVars

\* Channel::pop(): false if isEmpty(); else Consumer::pop() advances the tail of
\* the sizes ring by one token and the tail of the payload ring by its size
Pop ==
  /\ IF isEmpty
     THEN UNCHANGED <<coordinationForSizes, coordinationForPayloads, popped, lastPeek>>
     ELSE /\ coordinationForSizes' = [coordinationForSizes EXCEPT !.tail = @ + 1]
          /\ coordinationForPayloads' =
                [coordinationForPayloads EXCEPT !.tail = @ + consumerPeek.size]
          /\ popped' = Append(popped, [size   |-> consumerPeek.size,
                                       peeked |-> lastPeek.success,
                                       bytes  |-> lastPeek.bytes])
          /\ lastPeek' = NoToken
  /\ UNCHANGED <<tokenSizeBuffer, payloadBuffer, producerCoordination, channelLock,
                 pushPc, pushBuffer, pushCalls, lastPush, pushed>>
  /\ UNCHANGED notChanVars

\* the channel after createChannel: rings allocated, counters zero, nothing pushed
ChanInit ==
  /\ tokenSizeBuffer = [x \in 0..(BufferCapacity - 1) |-> [position |-> 0, size |-> 0]]
  /\ payloadBuffer = [x \in 0..(BufferSize - 1) |-> 0]
  /\ coordinationForSizes = initializeCoordinationBuffer
  /\ coordinationForPayloads = initializeCoordinationBuffer
  /\ producerCoordination = [p \in Producers |->
        [sizes |-> initializeCoordinationBuffer, payloads |-> initializeCoordinationBuffer]]
  /\ channelLock = 0
  /\ pushPc = [p \in Producers |-> "idle"]
  /\ pushBuffer = [p \in Producers |-> <<>>]
  /\ pushCalls = [p \in Producers |-> 0]
  /\ lastPush = [p \in Producers |-> NoPush]
  /\ pushed = [p \in Producers |-> <<>>]
  /\ lastPeek = NoToken
  /\ popped = <<>>

ChanIdle == ChanInit

(***************************************************************************)
(* DeployR::deploy(request) of deployr.hpp: the root checks the number of  *)
(* instances, creates the missing ones if it is alone, matches the         *)
(* requested instances with the hosts, and every paired host runs the      *)
(* initial function of its instance.                                       *)
(***************************************************************************)
\* a requested instance: the topology of its host type and its function
RequestedInstance(topology, function) == [topology |-> topology, function |-> function]

RequestedInstanceSet ==
  {RequestedInstance(t, f) : t \in TopologySet, f \in FunctionNames}

\* Host::checkCompatibility(hostType): the devices of the host are tried in
\* order, and the first one that satisfies a requested device is removed
checkCompatibility(host, required) == isSubset(host, required)

\* deployRemainingInstances(request): the first requested instance the local host
\* is compatible with is taken as satisfied, and an instance is created with the
\* requested topology of each of the others; the result is the new list of hosts
deployRemainingInstances(req, localTopology) ==
  LET isCompatible == {i \in 1..Len(req) : checkCompatibility(localTopology, req[i].topology)}
      satisfied    == IF isCompatible = {} THEN 0
                      ELSE CHOOSE i \in isCompatible : \A l \in isCompatible : i <= l
      RECURSIVE created(_)
      created(i) == IF i > Len(req) THEN <<>>
                    ELSE (IF i = satisfied THEN <<>> ELSE <<req[i].topology>>)
                         \o created(i + 1)
  IN <<localTopology>> \o created(1)

\* Deployment::performMatching(): whether every requested instance was matched,
\* and if so the 0-based index of the host assigned to each
performMatching(req, hst) ==
  LET m  == Len(req)
      topologies == [i \in 1..m |-> req[i].topology]
      hk == hopcroftKarpAlgorithm(matchingGraph(topologies, hst), m, Len(hst))
      graphPairings == getLeftSidePairings(hk, m)
  IN IF hk.result < m THEN [found |-> FALSE, pairings |-> <<>>]
     ELSE [found |-> TRUE, pairings |-> [i \in 1..m |-> graphPairings[i]]]

\* deploy(request) of part_018 up to the matching, with K initial and N requested
\* instances: abort() with K > N, with 1 < K < N and, the creation of instances
\* being left to be done there, with 1 = K < N
initialInstanceCountCheck(K, N) ==
  IF K > N THEN "aborted"
  ELSE IF K > 1 /\ K < N THEN "aborted"
  ELSE IF K = 1 /\ K < N THEN "aborted"
  ELSE "matching"

\* as RequestDeploy, without the test for more than one but fewer instances than
\* requested
RequestDeploy_irregular ==
  /\ requestPc = "deploy"
  /\ LET instancesRequested == Len(request)
         HiCRInstanceCount  == Len(hosts)
     IN IF HiCRInstanceCount > instancesRequested
        THEN /\ abortCode' = 0 - 3
             /\ requestPc' = "aborted"
             /\ UNCHANGED hosts
        ELSE /\ hosts' = IF HiCRInstanceCount = 1
                         THEN deployRemainingInstances(request, hosts[1])
                         ELSE hosts
             /\ requestPc' = "matching"
             /\ UNCHANGED abortCode
  /\ launched' = [j \in 1..Len(hosts') |-> NoFunction]
  /\ UNCHANGED <<request, requestFunctions, pairings>>
  /\ UNCHANGED notRequestVars

\* deploy(request) on the root, up to the matching: abort(-2) with more than one
\* but fewer instances than requested, abort(-3) with more instances than
\* requested; alone, the root creates the remaining instances
RequestDeploy ==
  /\ requestPc = "deploy"
  /\ LET instancesRequested == Len(request)
         HiCRInstanceCount  == Len(hosts)
     IN IF HiCRInstanceCount > 1 /\ HiCRInstanceCount < instancesRequested
        THEN /\ abortCode' = 0 - 2
             /\ requestPc' = "aborted"
             /\ UNCHANGED hosts
        ELSE IF HiCRInstanceCount > instancesRequested
        THEN /\ abortCode' = 0 - 3
             /\ requestPc' = "aborted"
             /\ UNCHANGED hosts
        ELSE /\ hosts' = IF HiCRInstanceCount = 1
                         THEN deployRemainingInstances(request, hosts[1])
                         ELSE hosts
             /\ requestPc' = "matching"
             /\ UNCHANGED abortCode
  /\ launched' = [j \in 1..Len(hosts') |-> NoFunction]
  /\ UNCHANGED <<request, requestFunctions, pairings>>
  /\ UNCHANGED notRequestVars

\* "Proceed with request to instance matching": abort(-4) if there is none
RequestMatching ==
  /\ requestPc = "matching"
  /\ LET m == performMatching(request, hosts)
     IN IF ~m.found
        THEN /\ abortCode' = 0 - 4
             /\ requestPc' = "aborted"
             /\ UNCHANGED pairings
        ELSE /\ pairings' = m.pairings
             /\ requestPc' = "running"
             /\ UNCHANGED abortCode
  /\ UNCHANGED <<request, hosts, requestFunctions, launched>>
  /\ UNCHANGED notRequestVars

\* identifyLocalInstance() and runInitialFunction() on the host at position j,
\* after the deployment was broadcast: abort(-8) if the function of its instance
\* is not registered
RequestRunInitialFunction(j) ==
  /\ requestPc = "running"
  /\ j \in 1..Len(hosts)
  /\ launched[j] = NoFunction
  /\ \E i \in 1..Len(request) : pairings[i] = j - 1
  /\ LET i      == CHOOSE i \in 1..Len(request) : pairings[i] = j - 1
         fcName == request[i].function
     IN IF fcName \notin requestFunctions
        THEN /\ abortCode' = 0 - 8
             /\ requestPc' = "aborted"
             /\ UNCHANGED launched
        ELSE /\ launched' = [launched EXCEPT ![j] = fcName]
             /\ UNCHANGED <<abortCode, requestPc>>
  /\ UNCHANGED <<request, hosts, requestFunctions, pairings>>
  /\ UNCHANGED notRequestVars

\* any request, any hosts, and either both functions registered or one only
RequestInit ==
  /\ request \in SeqsUpTo(RequestedInstanceSet, MaxRequested)
  /\ hosts \in SeqsUpTo(TopologySet, MaxGiven) \ {<<>>}
  /\ requestFunctions \in {FunctionNames, {"LeaderFc"}}
  /\ requestPc = "deploy"
  /\ pairings = <<>>
  /\ launched = <<>>
  /\ abortCode = 0

RequestIdle ==
  /\ request = <<>>
  /\ hosts = <<smallTopology>>
  /\ requestFunctions = FunctionNames
  /\ requestPc = "returned"
  /\ pairings = <<>>
  /\ launched = <<>>
  /\ abortCode = 0

(***************************************************************************)
(* Host::checkCompatibility applied to every pair of topologies with       *)
(* several devices within the bounds                                       *)
(***************************************************************************)
\* devices of two types; two of the cpu devices are such that neither fits the other
DeviceSet ==
  {Device("cpu", <<4>>, 1), Device("cpu", <<32, 32>>, 2), Device("cpu", <<4>>, 4),
   Device("gpu", <<4>>, 1)}

CompatInit ==
  /\ hostTopology \in SeqsUpTo(DeviceSet, MaxDevices)
  /\ requiredTopology \in SeqsUpTo(DeviceSet, MaxDevices)
  /\ compatible = FALSE
  /\ compatPc = "call"

CompatIdle ==
  /\ hostTopology = <<>>
  /\ requiredTopology = <<>>
  /\ compatible = FALSE
  /\ compatPc = "returned"

CheckCompatibility ==
  /\ compatPc = "call"
  /\ compatible' = checkCompatibility(hostTopology, requiredTopology)
  /\ compatPc' = "returned"
  /\ UNCHANGED <<hostTopology, requiredTopology>>
  /\ UNCHANGED notCompatVars

(***************************************************************************)
(* Engine::createChannel(channelTag, channelName, producerIdxs,            *)
(* consumerIdx, bufferCapacity, bufferSize), invoked by every instance     *)
(* with the same arguments.  exchangeGlobalMemorySlots registers the       *)
(* caller's slots under channelTag; fence(channelTag) blocks until every   *)
(* instance of the group has entered it.                                   *)
(***************************************************************************)
SIZES_BUFFER_KEY == 0

CONSUMER_COORDINATION_BUFFER_FOR_SIZES_KEY == 3

CONSUMER_COORDINATION_BUFFER_FOR_PAYLOADS_KEY == 4

CONSUMER_PAYLOAD_KEY == 5

\* the keys under which the consumer registers its four slots
ConsumerSlotKeys ==
  {SIZES_BUFFER_KEY, CONSUMER_COORDINATION_BUFFER_FOR_SIZES_KEY,
   CONSUMER_COORDINATION_BUFFER_FOR_PAYLOADS_KEY, CONSUMER_PAYLOAD_KEY}

\* the four slots the consumer on instance index i hands to
\* exchangeGlobalMemorySlots: the two rings as allocated, the two coordination
\* buffers after initializeCoordinationBuffer
ConsumerSlots(i) ==
  {[key |-> k, owner |-> i,
    content |-> IF k \in {CONSUMER_COORDINATION_BUFFER_FOR_SIZES_KEY,
                          CONSUMER_COORDINATION_BUFFER_FOR_PAYLOADS_KEY}
                THEN initializeCoordinationBuffer ELSE <<>>] : k \in ConsumerSlotKeys}

\* getGlobalMemorySlot(channelTag, key) for the four keys
getGlobalMemorySlots(slots) == {sl \in slots : sl.key \in ConsumerSlotKeys}

\* the operations of a Channel
ChannelOps == {"push", "peek", "pop"}

\* getLocalInstanceIndex(): the position of an instance in the instance list
InstanceIdxs == 0..(NumInstances - 1)

HandshakeInit ==
  /\ producerIdxs \in SUBSET InstanceIdxs
  /\ consumerIdx \in InstanceIdxs
  /\ createChannelPc = [i \in InstanceIdxs |-> "call"]
  /\ exchangeCalls = [i \in InstanceIdxs |-> 0]
  /\ fenceCalls = [i \in InstanceIdxs |-> 0]
  /\ globalMemorySlots = {}
  /\ resolvedSlots = [i \in InstanceIdxs |-> {}]
  /\ channelInterface = [i \in InstanceIdxs |-> "none"]
  /\ channelCalls = [i \in InstanceIdxs |-> [op \in ChannelOps |-> "none"]]

HandshakeIdle ==
  /\ producerIdxs = {}
  /\ consumerIdx = 0
  /\ createChannelPc = [i \in InstanceIdxs |-> "returned"]
  /\ exchangeCalls = [i \in InstanceIdxs |-> 0]
  /\ fenceCalls = [i \in InstanceIdxs |-> 0]
  /\ globalMemorySlots = {}
  /\ resolvedSlots = [i \in InstanceIdxs |-> {}]
  /\ channelInterface = [i \in InstanceIdxs |-> "none"]
  /\ channelCalls = [i \in InstanceIdxs |-> [op \in ChannelOps |-> "none"]]

\* createChannel on instance index i up to its call of fence: the roles, the
\* branch taken, the exchange.  With both roles none of the three branches is
\* taken and the call returns a Channel with no interface.
CreateChannelEnter(i) ==
  /\ createChannelPc[i] = "call"
  /\ LET isConsumer == consumerIdx = i
         isProducer == i \in producerIdxs
     IN IF isConsumer /\ isProducer
        THEN /\ createChannelPc' = [createChannelPc EXCEPT ![i] = "returned"]
             /\ UNCHANGED <<exchangeCalls, fenceCalls, globalMemorySlots>>
        ELSE /\ exchangeCalls' = [exchangeCalls EXCEPT ![i] = @ + 1]
             /\ globalMemorySlots' =
                   IF isConsumer THEN globalMemorySlots \cup ConsumerSlots(i)
                                 ELSE globalMemorySlots
             /\ fenceCalls' = [fenceCalls EXCEPT ![i] = @ + 1]
             /\ createChannelPc' = [createChannelPc EXCEPT ![i] = "fence"]
  /\ UNCHANGED <<producerIdxs, consumerIdx, resolvedSlots, channelInterface, channelCalls>>
  /\ UNCHANGED notHandshakeVars

\* the fence lets instance index i go on once every instance has entered it;
\* the consumer and the producers resolve the four slots and build their interface
FenceReturns(i) ==
  /\ createChannelPc[i] = "fence"
  /\ \A j \in InstanceIdxs : fenceCalls[j] >= 1
  /\ channelInterface' =
        [channelInterface EXCEPT ![i] = IF consumerIdx = i THEN "consumer"
                                        ELSE IF i \in producerIdxs THEN "producer"
                                        ELSE "none"]
  /\ resolvedSlots' =
        [resolvedSlots EXCEPT ![i] = IF consumerIdx = i \/ i \in producerIdxs
                                     THEN getGlobalMemorySlots(globalMemorySlots)
                                     ELSE {}]
  /\ createChannelPc' = [createChannelPc EXCEPT ![i] = "returned"]
  /\ UNCHANGED <<producerIdxs, consumerIdx, exchangeCalls, fenceCalls, globalMemorySlots,
                 channelCalls>>
  /\ UNCHANGED notHandshakeVars

\* as roleTest, but any interface will do
roleTest_any(interface, needed) ==
  IF interface = "none" THEN "threw" ELSE "entered"

\* the first statement of Channel::push, peek and pop: a logic exception if the
\* interface the operation needs is nullptr
roleTest(interface, needed) ==
  IF interface = needed THEN "entered" ELSE "threw"

\* Channel::push on the Channel that createChannel returned on instance index i,
\* up to the test of _producerInterface; what follows it is PushCall
PushRoleTest(i) ==
  /\ createChannelPc[i] = "returned"
  /\ channelCalls[i]["push"] = "none"
  /\ channelCalls' = [channelCalls EXCEPT
        ![i]["push"] = roleTest(channelInterface[i], "producer")]
  /\ UNCHANGED <<producerIdxs, consumerIdx, createChannelPc, exchangeCalls, fenceCalls,
                 globalMemorySlots, resolvedSlots, channelInterface>>
  /\ UNCHANGED notHandshakeVars

\* Channel::peek likewise, up to the test of _consumerInterface; what follows is Peek
PeekRoleTest(i) ==
  /\ createChannelPc[i] = "returned"
  /\ channelCalls[i]["peek"] = "none"
  /\ channelCalls' = [channelCalls EXCEPT
        ![i]["peek"] = roleTest(channelInterface[i], "consumer")]
  /\ UNCHANGED <<producerIdxs, consumerIdx, createChannelPc, exchangeCalls, fenceCalls,
                 globalMemorySlots, resolvedSlots, channelInterface>>
  /\ UNCHANGED notHandshakeVars

\* Channel::pop likewise, up to the test of _consumerInterface; what follows is Pop
PopRoleTest(i) ==
  /\ createChannelPc[i] = "returned"
  /\ channelCalls[i]["pop"] = "none"
  /\ channelCalls' = [channelCalls EXCEPT
        ![i]["pop"] = roleTest(channelInterface[i], "consumer")]
  /\ UNCHANGED <<producerIdxs, consumerIdx, createChannelPc, exchangeCalls, fenceCalls,
                 globalMemorySlots, resolvedSlots, channelInterface>>
  /\ UNCHANGED notHandshakeVars

(***************************************************************************)
(* DeployR::registerFunction(functionName, fc), as written in part_014     *)
(* (a logic exception for a name already used) and in deployr.hpp          *)
(* (abort(-5) for it), and the invocation of a registered name.            *)
(***************************************************************************)
\* the closures handed to registerFunction
Closures == {"f1", "f2"}

NoClosure == "none"

\* nothing can run on an instance after _instanceManager->abort
InstanceAborted ==
  \E n \in 1..Len(registerCalls) : registerCalls[n].outcome = "aborted"

\* registerFunction of part_014: HICR_THROW_LOGIC if the name is in
\* _registeredFunctions, else the closure is inserted and registerRPC adds it
\* as an RPC target
RegisterFunction(functionName, fc) ==
  /\ ~InstanceAborted
  /\ Len(registerCalls) < MaxRegisterCalls
  /\ IF functionTable[functionName] # NoClosure
     THEN /\ registerCalls' = Append(registerCalls,
                [name |-> functionName, closure |-> fc, outcome |-> "threw"])
          /\ UNCHANGED <<functionTable, rpcTargets>>
     ELSE /\ functionTable' = [functionTable EXCEPT ![functionName] = fc]
          /\ rpcTargets' = [rpcTargets EXCEPT ![functionName] = fc]
          /\ registerCalls' = Append(registerCalls,
                [name |-> functionName, closure |-> fc, outcome |-> "registered"])
  /\ UNCHANGED invocations
  /\ UNCHANGED notRegisterVars

\* registerFunction of deployr.hpp: fprintf and _instanceManager->abort(-5) if
\* the name is in _registeredFunctions
RegisterFunctionOrAbort(functionName, fc) ==
  /\ ~InstanceAborted
  /\ Len(registerCalls) < MaxRegisterCalls
  /\ IF functionTable[functionName] # NoClosure
     THEN /\ registerCalls' = Append(registerCalls,
                [name |-> functionName, closure |-> fc, outcome |-> "aborted"])
          /\ UNCHANGED <<functionTable, rpcTargets>>
     ELSE /\ functionTable' = [functionTable EXCEPT ![functionName] = fc]
          /\ rpcTargets' = [rpcTargets EXCEPT ![functionName] = fc]
          /\ registerCalls' = Append(registerCalls,
                [name |-> functionName, closure |-> fc, outcome |-> "registered"])
  /\ UNCHANGED invocations
  /\ UNCHANGED notRegisterVars

\* runInitialFunction() for a registered name: _registeredFunctions[name] is run
InvokeLocal(functionName) ==
  /\ ~InstanceAborted
  /\ Len(invocations) < MaxInvocations
  /\ functionTable[functionName] # NoClosure
  /\ invocations' = Append(invocations,
        [name |-> functionName, closure |-> functionTable[functionName],
         via |-> "local"])
  /\ UNCHANGED <<functionTable, rpcTargets, registerCalls>>
  /\ UNCHANGED notRegisterVars

\* listen() serving a request for a name with a target: the target is run
InvokeRPC(functionName) ==
  /\ ~InstanceAborted
  /\ Len(invocations) < MaxInvocations
  /\ rpcTargets[functionName] # NoClosure
  /\ invocations' = Append(invocations,
        [name |-> functionName, closure |-> rpcTargets[functionName],
         via |-> "rpc"])
  /\ UNCHANGED <<functionTable, rpcTargets, registerCalls>>
  /\ UNCHANGED notRegisterVars

\* a DeployR object on which no function was registered by its user
RegisterInit ==
  /\ functionTable = [name \in FunctionNames |-> NoClosure]
  /\ rpcTargets = [name \in FunctionNames |-> NoClosure]
  /\ registerCalls = <<>>
  /\ invocations = <<>>

RegisterIdle == RegisterInit

(***************************************************************************)
(* initialize() and gatherGlobalTopology(rootInstanceId, instanceIds):     *)
(* the root asks every other instance for its topology with the            *)
(* "[DeployR] Get Topology" request; the others serve it in listen().      *)
(* The topology travels as the text of its JSON form.                      *)
(***************************************************************************)
GetTopologyRPC == "[DeployR] Get Topology"

\* the character that ends a C string
NUL == [nul |-> TRUE]

\* no return value submitted
NoReturnValue == <<>>

\* HiCR::Topology::serialize(): the JSON form, one object per device with its
\* "Type", the list of its "Memory Spaces" and the list of its "Compute Resources"
serialize(t) ==
  [k \in 1..Len(t) |->
     [Type |-> t[k].type,
      MemorySpaces |-> [m \in 1..Len(t[k].memorySpaces) |-> [Size |-> t[k].memorySpaces[m]]],
      ComputeResources |-> [c \in 1..t[k].computeResources |-> [Type |-> "Processing Unit"]]]]

\* the text of one device object
dumpDevice(d) ==
  <<[open |-> d.Type]>>
  \o [m \in 1..Len(d.MemorySpaces) |-> [size |-> d.MemorySpaces[m].Size]]
  \o [c \in 1..Len(d.ComputeResources) |-> [cr |-> d.ComputeResources[c].Type]]
  \o <<[close |-> TRUE]>>

\* nlohmann::json::dump(): the text of the JSON form
RECURSIVE dump(_)
dump(js) == IF js = <<>> THEN <<>> ELSE dumpDevice(Head(js)) \o dump(Tail(js))

\* the size() + 1 characters from c_str(): the text and its terminating character
c_str(text) == Append(text, NUL)

\* std::string from a char pointer: the characters before the first terminator
stringOf(chars) ==
  LET nuls == {k \in 1..Len(chars) : chars[k] = NUL}
  IN IF nuls = {} THEN chars
     ELSE SubSeq(chars, 1, (CHOOSE k \in nuls : \A l \in nuls : k <= l) - 1)

\* no device object read yet
NoDevice == [Type |-> "", MemorySpaces |-> <<>>, ComputeResources |-> <<>>]

RECURSIVE parseFrom(_, _, _, _)
parseFrom(text, k, done, cur) ==
  IF k > Len(text) THEN done
  ELSE LET tok == text[k]
       IN IF "open" \in DOMAIN tok
          THEN parseFrom(text, k + 1, done, [NoDevice EXCEPT !.Type = tok.open])
          ELSE IF "size" \in DOMAIN tok
          THEN parseFrom(text, k + 1, done,
                         [cur EXCEPT !.MemorySpaces = Append(@, [Size |-> tok.size])])
          ELSE IF "cr" \in DOMAIN tok
          THEN parseFrom(text, k + 1, done,
                         [cur EXCEPT !.ComputeResources = Append(@, [Type |-> tok.cr])])
          ELSE IF "close" \in DOMAIN tok
          THEN parseFrom(text, k + 1, Append(done, cur), NoDevice)
          ELSE done

\* nlohmann::json::parse(): the JSON form of a text
parse(text) == parseFrom(text, 1, <<>>, NoDevice)

\* as Topology, but the memory spaces of a device become one of their total size
Topology_oneSpace(js) ==
  [k \in 1..Len(js) |->
     Device(js[k].Type,
            <<SumSeq([m \in 1..Len(js[k].MemorySpaces) |-> js[k].MemorySpaces[m].Size])>>,
            Len(js[k].ComputeResources))]

\* HiCR::Topology(json): the topology of a JSON form
Topology(js) ==
  [k \in 1..Len(js) |->
     Device(js[k].Type,
            [m \in 1..Len(js[k].MemorySpaces) |-> js[k].MemorySpaces[m].Size],
            Len(js[k].ComputeResources))]

\* gatherTopologyRPC of initialize(): the return value submitted by instance i
gatherTopologyRPC(i) == c_str(dump(serialize(localTopologies[i])))

\* the root's loop moves on to the next instance, or ends and the vector is returned
GatherAdvance ==
  /\ gatherIdx' = gatherIdx + 1
  /\ gatherPc' = [gatherPc EXCEPT ![rootInstanceId] =
        IF gatherIdx = NumInstances THEN "returned" ELSE "requesting"]

\* gatherGlobalTopology is called on instance i: an instance that is not the root
\* goes to listen(), the root to its loop over the instances
GatherCall(i) ==
  /\ gatherPc[i] = "start"
  /\ gatherPc' = [gatherPc EXCEPT ![i] =
        IF i # rootInstanceId THEN "listening" ELSE "requesting"]
  /\ UNCHANGED <<rootInstanceId, instanceIds, localTopologies, gatherIdx, globalTopology,
                 returnValues, topologyRequests, gatherServed>>
  /\ UNCHANGED deployVars
  /\ UNCHANGED notGatherVars

\* as GatherListen, but the request served stays pending
GatherListen_keep(i) ==
  /\ gatherPc[i] = "listening"
  /\ pendingRPCs[i] # <<>>
  /\ LET rpc == Head(pendingRPCs[i])
     IN /\ gatherServed' = [gatherServed EXCEPT ![i] = Append(@, rpc.function)]
        /\ returnValues' = [returnValues EXCEPT ![i] = gatherTopologyRPC(i)]
        /\ UNCHANGED <<executed, pendingRPCs>>
  /\ gatherPc' = [gatherPc EXCEPT ![i] = "returned"]
  /\ UNCHANGED <<rootInstanceId, instanceIds, localTopologies, gatherIdx, globalTopology,
                 topologyRequests>>
  /\ UNCHANGED <<runners, coordinatorInstanceId, registeredFunctions, deployPc, runnerIdx,
                 coodinatorIsRunner, initialFunction, runnerId, requestsIssued>>
  /\ UNCHANGED notGatherVars

\* the listen() of gatherGlobalTopology on an instance that is not the root: it
\* serves the oldest pending request, whatever its name, and returns with the
\* empty vector; Get Topology submits the topology as return value
GatherListen(i) ==
  /\ gatherPc[i] = "listening"
  /\ pendingRPCs[i] # <<>>
  /\ LET rpc == Head(pendingRPCs[i])
     IN /\ pendingRPCs' = [pendingRPCs EXCEPT ![i] = Tail(@)]
        /\ gatherServed' = [gatherServed EXCEPT ![i] = Append(@, rpc.function)]
        /\ IF rpc.function = GetTopologyRPC
           THEN /\ returnValues' = [returnValues EXCEPT ![i] = gatherTopologyRPC(i)]
                /\ UNCHANGED executed
           ELSE /\ executed' = [executed EXCEPT ![i] =
                      IF rpc.function \in registeredFunctions[i]
                      THEN Append(@, [function |-> rpc.function,
                                      runnerId |-> rpc.argument, via |-> "rpc"])
                      ELSE @]
                /\ UNCHANGED returnValues
  /\ gatherPc' = [gatherPc EXCEPT ![i] = "returned"]
  /\ UNCHANGED <<rootInstanceId, instanceIds, localTopologies, gatherIdx, globalTopology,
                 topologyRequests>>
  /\ UNCHANGED <<runners, coordinatorInstanceId, registeredFunctions, deployPc, runnerIdx,
                 coodinatorIsRunner, initialFunction, runnerId, requestsIssued>>
  /\ UNCHANGED notGatherVars

\* one turn of the root's loop over the instances of the instance manager: its
\* own topology is pushed at once, any other instance is sent Get Topology
GatherRequest ==
  LET root == rootInstanceId
  IN /\ gatherPc[root] = "requesting"
     /\ IF gatherIdx = root
        THEN /\ globalTopology' = [globalTopology EXCEPT ![root] =
                   Append(@, Topology(serialize(localTopologies[root])))]
             /\ GatherAdvance
             /\ UNCHANGED <<pendingRPCs, topologyRequests>>
        ELSE /\ pendingRPCs' = [pendingRPCs EXCEPT ![gatherIdx] =
                   Append(@, [function |-> GetTopologyRPC, argument |-> 0])]
             /\ topologyRequests' = Append(topologyRequests, gatherIdx)
             /\ gatherPc' = [gatherPc EXCEPT ![root] = "awaiting"]
             /\ UNCHANGED <<globalTopology, gatherIdx>>
     /\ UNCHANGED <<rootInstanceId, instanceIds, localTopologies, returnValues,
                    gatherServed>>
     /\ UNCHANGED <<runners, coordinatorInstanceId, registeredFunctions, deployPc, runnerIdx,
                    coodinatorIsRunner, initialFunction, runnerId, requestsIssued,
                    executed>>
     /\ UNCHANGED notGatherVars

\* getReturnValue on the root returns with what the instance asked has submitted:
\* the text is parsed, the return value freed, the topology pushed
GatherReceive ==
  LET root == rootInstanceId
  IN /\ gatherPc[root] = "awaiting"
     /\ returnValues[gatherIdx] # NoReturnValue
     /\ globalTopology' = [globalTopology EXCEPT ![root] =
           Append(@, Topology(parse(stringOf(returnValues[gatherIdx]))))]
     /\ returnValues' = [returnValues EXCEPT ![gatherIdx] = NoReturnValue]
     /\ GatherAdvance
     /\ UNCHANGED <<rootInstanceId, instanceIds, localTopologies, topologyRequests,
                    gatherServed>>
     /\ UNCHANGED deployVars
     /\ UNCHANGED notGatherVars

\* a topology of two devices, the first with two memory spaces of different sizes
mixedTopology == << Device("cpu", <<4, 32>>, 2), Device("gpu", <<4>>, 1) >>

GatherTopologySet == TopologySet \cup {mixedTopology}

GatherStart ==
  /\ gatherPc = [i \in Instances |-> "start"]
  /\ gatherIdx = 1
  /\ globalTopology = [i \in Instances |-> <<>>]
  /\ returnValues = [i \in Instances |-> NoReturnValue]
  /\ topologyRequests = <<>>
  /\ gatherServed = [i \in Instances |-> <<>>]

\* any root, any participating instances with the root among them, any topologies
GatherInit ==
  /\ rootInstanceId \in Instances
  /\ instanceIds \in {ids \in SUBSET Instances : rootInstanceId \in ids}
  /\ localTopologies \in [Instances -> GatherTopologySet]
  /\ GatherStart

\* main() of the deploy example: every instance is gathered from, the root of
\* the gathering is the coordinator of the deployment
GatherMainInit ==
  /\ rootInstanceId = coordinatorInstanceId
  /\ instanceIds = Instances
  /\ localTopologies \in {[i \in Instances |-> t] : t \in TopologySet}
  /\ GatherStart

GatherIdle ==
  /\ rootInstanceId = 1
  /\ instanceIds = {}
  /\ localTopologies = [i \in Instances |-> <<>>]
  /\ gatherPc = [i \in Instances |-> "returned"]
  /\ gatherIdx = 1
  /\ globalTopology = [i \in Instances |-> <<>>]
  /\ returnValues = [i \in Instances |-> NoReturnValue]
  /\ topologyRequests = <<>>
  /\ gatherServed = [i \in Instances |-> <<>>]

\* main() of the deploy example calls deploy after gatherGlobalTopology has returned
MainCallDeploy(i) ==
  /\ gatherPc[i] = "returned"
  /\ CallDeploy(i)

(***************************************************************************)
(* Inside the entry functions: getRunnerId()                               *)
(***************************************************************************)
\* the root instance of the instance manager: the first of its instances
RootInstance == 1

\* isRootInstance() of the instance manager's current instance
isRootInstance(i) == i = RootInstance

\* what a read of a _runnerId that was never assigned, or getRPCArgument() of
\* an instance that is serving no request, may yield: a runner id or any other value
AnyRunnerIdValue == RunnerIds \cup {MaxRunners}

\* the values getRunnerId() may return on instance i: the root instance reads its
\* _runnerId, which only deploy() on a coordinator that has a runner has assigned;
\* any other instance reads the argument of the request it is serving
getRunnerId(i) ==
  IF isRootInstance(i)
  THEN IF i = coordinatorInstanceId /\ coodinatorIsRunner THEN {runnerId}
       ELSE AnyRunnerIdValue
  ELSE IF executed[i] # <<>> /\ executed[i][Len(executed[i])].via = "rpc"
       THEN {executed[i][Len(executed[i])].runnerId}
       ELSE AnyRunnerIdValue

\* the entry function running on instance i calls getRunnerId()
GetRunnerId(i) ==
  /\ deployPc[i] = "running"
  /\ observedRunnerId[i] = {}
  /\ \E id \in getRunnerId(i) :
        observedRunnerId' = [observedRunnerId EXCEPT ![i] = {id}]
  /\ UNCHANGED <<entryChannel, pushIdx>>
  /\ UNCHANGED deployVars
  /\ UNCHANGED <<matchVars, chanVars, requestVars, registerVars, compatVars,
                 handshakeVars, gatherVars, reservedVars, broadcastVars>>

\* the entry function running on instance i, "" if none is
runningFunction(i) ==
  IF deployPc[i] = "running" /\ executed[i] # <<>>
  THEN executed[i][Len(executed[i])].function
  ELSE NoFunction

\* the instances a runner is assigned to
RunnerInstances == {runners[k].instanceId : k \in 1..Len(runners)}

\* request.getChannels(): one channel "Coordinator -> worker" per worker with a
\* runner, in the order of the runners; each is named here by its consumer
entryChannels ==
  SelectSeq([k \in 1..Len(runners) |-> runners[k].instanceId],
            LAMBDA inst : inst # coordinatorInstanceId)

\* coordinatorFc: one turn of the loop over the channels pushes the message of
\* the next channel; after the last turn the function returns
CoordinatorFc ==
  LET c == coordinatorInstanceId
  IN /\ runningFunction(c) = "LeaderFc"
     /\ IF pushIdx <= Len(entryChannels)
        THEN /\ entryChannel' = [entryChannel EXCEPT ![entryChannels[pushIdx]] = @ + 1]
             /\ pushIdx' = pushIdx + 1
             /\ UNCHANGED deployPc
        ELSE /\ deployPc' = [deployPc EXCEPT ![c] = "returned"]
             /\ UNCHANGED <<entryChannel, pushIdx>>
     /\ UNCHANGED <<runners, coordinatorInstanceId, registeredFunctions, runnerIdx,
                    coodinatorIsRunner, initialFunction, runnerId, pendingRPCs,
                    requestsIssued, executed>>
     /\ UNCHANGED observedRunnerId
     /\ UNCHANGED <<matchVars, chanVars, requestVars, registerVars, compatVars,
                    handshakeVars, gatherVars, reservedVars, broadcastVars>>

\* workerFc: peek until it succeeds, then return; the token is not popped
WorkerFc(i) ==
  /\ runningFunction(i) = "WorkerFc"
  /\ IF entryChannel[i] = 0
     THEN UNCHANGED deployPc
     ELSE deployPc' = [deployPc EXCEPT ![i] = "returned"]
  /\ UNCHANGED <<runners, coordinatorInstanceId, registeredFunctions, runnerIdx,
                 coodinatorIsRunner, initialFunction, runnerId, pendingRPCs,
                 requestsIssued, executed>>
  /\ UNCHANGED entryVars
  /\ UNCHANGED <<matchVars, chanVars, requestVars, registerVars, compatVars,
                 handshakeVars, gatherVars, reservedVars, broadcastVars>>

\* the deployments of the example: the coordinator runs coordinatorFc (registered
\* as "LeaderFc"), every other runner workerFc (registered as "WorkerFc")
MessagingDeployments ==
  {d \in ValidDeployments :
     \E c \in Instances :
        /\ \E k \in 1..Len(d) : d[k].instanceId = c
        /\ \A k \in 1..Len(d) :
              d[k].function = (IF d[k].instanceId = c THEN "LeaderFc" ELSE "WorkerFc")}

\* the coordinator of a deployment of the example
MessagingInit ==
  /\ runners \in MessagingDeployments
  /\ coordinatorInstanceId \in
        {runners[k].instanceId : k \in {l \in 1..Len(runners) : runners[l].function = "LeaderFc"}}
  /\ registeredFunctions = [i \in Instances |-> FunctionNames]
  /\ DeployStart

EntryIdle ==
  /\ observedRunnerId = [i \in Instances |-> {}]
  /\ entryChannel = [i \in Instances |-> 0]
  /\ pushIdx = 1

(***************************************************************************)
(* initialize() and registerFunction with any name, the reserved name of   *)
(* the built-in target included.                                           *)
(***************************************************************************)
\* the names handed to registerFunction
TargetNames == FunctionNames \cup {GetTopologyRPC}

\* the closure that initialize() registers under the reserved name
BuiltInClosure == "gatherTopologyRPC"

\* RPCEngine::addRPCTarget: DuplicateName if the name has a target, which stays
addRPCTarget(targets, name, fc) ==
  IF targets[name] # NoClosure
  THEN [ok |-> FALSE, targets |-> targets]
  ELSE [ok |-> TRUE, targets |-> [targets EXCEPT ![name] = fc]]

\* initialize(): registerRPC of the built-in closure under the reserved name
Initialize ==
  /\ Len(reservedCalls) < MaxReservedCalls
  /\ LET r == addRPCTarget(rpcTargetMap, GetTopologyRPC, BuiltInClosure)
     IN /\ rpcTargetMap' = r.targets
        /\ reservedCalls' = Append(reservedCalls,
              [op |-> "initialize", name |-> GetTopologyRPC, closure |-> BuiltInClosure,
               outcome |-> IF r.ok THEN "registered" ELSE "DuplicateName"])
  /\ UNCHANGED userFunctions
  /\ UNCHANGED <<matchVars, deployVars, chanVars, requestVars, registerVars, compatVars,
                 handshakeVars, gatherVars, entryVars,
                 broadcastVars>>

\* registerFunction of part_014 with any name: a logic exception if the name is
\* in _registeredFunctions; else the closure is inserted there and registerRPC
\* hands it to addRPCTarget
RegisterAnyName(functionName, fc) ==
  /\ Len(reservedCalls) < MaxReservedCalls
  /\ IF userFunctions[functionName] # NoClosure
     THEN /\ reservedCalls' = Append(reservedCalls,
                [op |-> "registerFunction", name |-> functionName, closure |-> fc,
                 outcome |-> "threw"])
          /\ UNCHANGED <<userFunctions, rpcTargetMap>>
     ELSE LET r == addRPCTarget(rpcTargetMap, functionName, fc)
          IN /\ userFunctions' = [userFunctions EXCEPT ![functionName] = fc]
             /\ rpcTargetMap' = r.targets
             /\ reservedCalls' = Append(reservedCalls,
                   [op |-> "registerFunction", name |-> functionName, closure |-> fc,
                    outcome |-> IF r.ok THEN "registered" ELSE "DuplicateName"])
  /\ UNCHANGED <<matchVars, deployVars, chanVars, requestVars, registerVars, compatVars,
                 handshakeVars, gatherVars, entryVars,
                 broadcastVars>>

\* a DeployR object just constructed
ReservedInit ==
  /\ rpcTargetMap = [name \in TargetNames |-> NoClosure]
  /\ userFunctions = [name \in TargetNames |-> NoClosure]
  /\ reservedCalls = <<>>

ReservedIdle == ReservedInit

(***************************************************************************)
(* deploy(request) of deployr.hpp on every instance: the root gathers the  *)
(* topologies, matches, and serves one "[DeployR] Get Deployment" request  *)
(* of every other instance; each instance then identifies its requested    *)
(* instance in the deployment and runs its initial function.               *)
(* Instances are named by their position in getInstances(), the root first *)
(* (request, hosts, requestFunctions, requestPc, pairings and abortCode    *)
(* are those of the root above).                                           *)
(***************************************************************************)
GetDeploymentRPC == "[DeployR] Get Deployment"

\* the root alone may create one instance per requested instance
MaxBroadcastInstances == MaxRequested + 1

BroadcastInstances == 1..MaxBroadcastInstances

\* the instances of the instance manager other than the root
NonRootInstances == {j \in BroadcastInstances : j <= Len(hosts) /\ ~isRootInstance(j)}

\* Host(instanceId, topology): the topology is kept in its JSON form
Host(instanceId, topology) == [instanceId |-> instanceId, topology |-> topology]

\* Deployment() = default
NoDeployment == [request |-> <<>>, hosts |-> <<>>, pairings |-> <<>>]

\* Deployment(request)
Deployment(req) == [request |-> req, hosts |-> <<>>, pairings |-> <<>>]

\* the elements of a list as a JSON array: a list without element leaves no key
arrayKey(key, list) == IF list = <<>> THEN {} ELSE {key}

\* Deployment::serialize(): "Request", one element of "Pairings" per pairing in
\* the order of the instance names and one element of "Hosts" per host; keys
\* holds the keys the JSON object has
serializeDeployment(d) ==
  [keys |-> {"Request"} \cup arrayKey("Pairings", d.pairings) \cup arrayKey("Hosts", d.hosts),
   Request |-> d.request,
   Pairings |-> [k \in 1..Len(d.pairings) |->
                   [InstanceName |-> k, AssignedHost |-> d.pairings[k]]],
   Hosts |-> [k \in 1..Len(d.hosts) |->
                [HostIndex |-> d.hosts[k].instanceId, Topology |-> d.hosts[k].topology]]]

\* nlohmann::json::dump() of a deployment: the text of the request, of every
\* pairing and of every host, the topology of a host as the text of its JSON form
dumpDeployment(js) ==
  <<[request |-> js.Request]>>
  \o [k \in 1..Len(js.Pairings) |->
        [name |-> js.Pairings[k].InstanceName, host |-> js.Pairings[k].AssignedHost]]
  \o [k \in 1..Len(js.Hosts) |->
        [index |-> js.Hosts[k].HostIndex, topology |-> dump(js.Hosts[k].Topology)]]

\* nlohmann::json::parse() of the text of a deployment
parseDeployment(text) ==
  LET requests == SelectSeq(text, LAMBDA tok : "request" \in DOMAIN tok)
      pairs    == SelectSeq(text, LAMBDA tok : "name" \in DOMAIN tok)
      hostsJs  == SelectSeq(text, LAMBDA tok : "index" \in DOMAIN tok)
  IN [keys |-> arrayKey("Request", requests) \cup arrayKey("Pairings", pairs)
                 \cup arrayKey("Hosts", hostsJs),
      Request |-> IF requests = <<>> THEN <<>> ELSE requests[1].request,
      Pairings |-> [k \in 1..Len(pairs) |->
                      [InstanceName |-> pairs[k].name, AssignedHost |-> pairs[k].host]],
      Hosts |-> [k \in 1..Len(hostsJs) |->
                   [HostIndex |-> hostsJs[k].index, Topology |-> parse(hostsJs[k].topology)]]]

\* what a constructor leaves when it throws
Thrown == [request |-> <<>>, hosts |-> <<>>, pairings |-> <<>>, thrown |-> TRUE]

\* Deployment(json): the request is built from its JSON form, the pairings are
\* stored by instance name and the hosts in their order; getObject and getArray
\* throw on a key that is missing
DeploymentFromJson(js) ==
  IF {"Request", "Pairings", "Hosts"} \subseteq js.keys
  THEN [request |-> [k \in 1..Len(js.Request) |->
                       RequestedInstance(js.Request[k].topology, js.Request[k].function)],
        pairings |-> [n \in {js.Pairings[k].InstanceName : k \in 1..Len(js.Pairings)} |->
                        LET k == CHOOSE l \in 1..Len(js.Pairings) : js.Pairings[l].InstanceName = n
                        IN js.Pairings[k].AssignedHost],
        hosts |-> [k \in 1..Len(js.Hosts) |-> Host(js.Hosts[k].HostIndex, js.Hosts[k].Topology)]]
  ELSE Thrown

\* the closure of "[DeployR] Get Deployment": the return value submitted
getDeploymentRPC(d) == c_str(dumpDeployment(serializeDeployment(d)))

\* the closure of the RPC target called name on instance j: the return value
rpcTarget(name, j) ==
  IF name = GetTopologyRPC THEN c_str(dump(serialize(hosts[j])))
  ELSE getDeploymentRPC(instanceDeployment[j])

\* identifyLocalInstance(): the name of the first pairing, in the order of the
\* names, whose host carries the id of this instance; 0 stands for the empty
\* name, with which getInstances().at throws
identifyLocalInstance(d, id) ==
  LET names == {n \in DOMAIN d.pairings : d.hosts[d.pairings[n] + 1].instanceId = id}
  IN IF names = {} THEN 0 ELSE CHOOSE n \in names : \A l \in names : n <= l

\* identifyLocalInstance() and runInitialFunction() on instance j with
\* deployment d: the position reached, the abort code and the functions run
runLocalInstance(d, j) ==
  LET name == identifyLocalInstance(d, j)
  IN IF name = 0
     THEN [pc |-> "threw", abort |-> 0, run |-> <<>>]
     ELSE IF d.request[name].function \notin requestFunctions
     THEN [pc |-> "aborted", abort |-> 0 - 8, run |-> <<>>]
     ELSE [pc |-> "returned", abort |-> 0,
           run |-> <<[name |-> name, function |-> d.request[name].function]>>]

\* the root pushes its own topology: the first step of gatherGlobalTopology()
\* on the root, which has made _deployment = Deployment(request) before
GatherOwn ==
  /\ requestPc = "matching"
  /\ abortCode = 0
  /\ rootGlobalTopology = <<>>
  /\ rootGlobalTopology' = <<serialize(hosts[RootInstance])>>
  /\ instanceDeployment' = [instanceDeployment EXCEPT ![RootInstance] = Deployment(request)]
  /\ UNCHANGED <<instancePc, rpcRequests, rpcReturnValue, deploymentsServed, initialRuns>>
  /\ UNCHANGED requestVars
  /\ UNCHANGED notBroadcastVars

\* the root's loop over the instances: launchRPC of Get Topology to the next one
GatherLaunch ==
  /\ requestPc = "matching"
  /\ abortCode = 0
  /\ LET next == Len(rootGlobalTopology) + 1
     IN /\ 1 < next /\ next <= Len(hosts)
        /\ rpcRequests[next] = <<>>
        /\ rpcReturnValue[RootInstance] = NoReturnValue
        /\ rpcRequests' = [rpcRequests EXCEPT ![next] =
              Append(@, [name |-> GetTopologyRPC, requester |-> RootInstance])]
  /\ UNCHANGED <<instancePc, rpcReturnValue, rootGlobalTopology, instanceDeployment,
                 deploymentsServed, initialRuns>>
  /\ UNCHANGED requestVars
  /\ UNCHANGED notBroadcastVars

\* the root's loop over the instances: getReturnValue, parse and push_back
GatherTake ==
  /\ requestPc = "matching"
  /\ abortCode = 0
  /\ Len(rootGlobalTopology) < Len(hosts)
  /\ rpcReturnValue[RootInstance] # NoReturnValue
  /\ rootGlobalTopology' =
        Append(rootGlobalTopology, parse(stringOf(rpcReturnValue[RootInstance])))
  /\ rpcReturnValue' = [rpcReturnValue EXCEPT ![RootInstance] = NoReturnValue]
  /\ UNCHANGED <<instancePc, rpcRequests, instanceDeployment, deploymentsServed, initialRuns>>
  /\ UNCHANGED requestVars
  /\ UNCHANGED notBroadcastVars

\* deploy(request) on an instance that is not the root: the listen() of
\* gatherGlobalTopology() serves the request at the head of its queue
MemberListen(j) ==
  /\ j \in NonRootInstances
  /\ abortCode = 0
  /\ instancePc[j] = "listen"
  /\ rpcRequests[j] # <<>>
  /\ LET rpc == Head(rpcRequests[j])
     IN rpcReturnValue' = [rpcReturnValue EXCEPT ![rpc.requester] = rpcTarget(rpc.name, j)]
  /\ rpcRequests' = [rpcRequests EXCEPT ![j] = Tail(@)]
  /\ instancePc' = [instancePc EXCEPT ![j] = "request"]
  /\ UNCHANGED <<rootGlobalTopology, instanceDeployment, deploymentsServed, initialRuns>>
  /\ UNCHANGED requestVars
  /\ UNCHANGED notBroadcastVars

\* broadcastDeployment() on an instance that is not the root: launchRPC of
\* Get Deployment to the root
MemberRequest(j) ==
  /\ j \in NonRootInstances
  /\ abortCode = 0
  /\ instancePc[j] = "request"
  /\ rpcRequests' = [rpcRequests EXCEPT ![RootInstance] =
        Append(@, [name |-> GetDeploymentRPC, requester |-> j])]
  /\ instancePc' = [instancePc EXCEPT ![j] = "wait"]
  /\ UNCHANGED <<rpcReturnValue, rootGlobalTopology, instanceDeployment, deploymentsServed,
                 initialRuns>>
  /\ UNCHANGED requestVars
  /\ UNCHANGED notBroadcastVars

\* the root after the gather: a host per gathered topology is added to the
\* deployment and the matching is made; abort(-4) if there is none
RootMatching ==
  /\ requestPc = "matching"
  /\ abortCode = 0
  /\ Len(rootGlobalTopology) = Len(hosts)
  /\ LET m == performMatching(request,
                 [i \in 1..Len(rootGlobalTopology) |-> Topology(rootGlobalTopology[i])])
     IN IF ~m.found
        THEN /\ abortCode' = 0 - 4
             /\ requestPc' = "aborted"
             /\ UNCHANGED <<pairings, instanceDeployment>>
        ELSE /\ pairings' = m.pairings
             /\ instanceDeployment' = [instanceDeployment EXCEPT ![RootInstance] =
                   [request  |-> request,
                    hosts    |-> [i \in 1..Len(rootGlobalTopology) |->
                                    Host(i, rootGlobalTopology[i])],
                    pairings |-> m.pairings]]
             /\ requestPc' = "broadcast"
             /\ UNCHANGED abortCode
  /\ UNCHANGED <<request, hosts, requestFunctions, launched>>
  /\ UNCHANGED <<instancePc, rpcRequests, rpcReturnValue, rootGlobalTopology,
                 deploymentsServed, initialRuns>>
  /\ UNCHANGED notBroadcastVars

\* as RootBroadcastListen, but the root serves requests during the gather as well
RootBroadcastListen_early ==
  /\ requestPc \in {"matching", "broadcast"}
  /\ abortCode = 0
  /\ Len(deploymentsServed) < Len(hosts) - 1
  /\ rpcRequests[RootInstance] # <<>>
  /\ LET rpc == Head(rpcRequests[RootInstance])
     IN /\ rpcReturnValue' =
              [rpcReturnValue EXCEPT ![rpc.requester] = rpcTarget(rpc.name, RootInstance)]
        /\ deploymentsServed' = Append(deploymentsServed,
              [name |-> rpc.name, requester |-> rpc.requester,
               pairings |-> instanceDeployment[RootInstance].pairings])
  /\ rpcRequests' = [rpcRequests EXCEPT ![RootInstance] = Tail(@)]
  /\ UNCHANGED <<instancePc, rootGlobalTopology, instanceDeployment, initialRuns>>
  /\ UNCHANGED requestVars
  /\ UNCHANGED notBroadcastVars

\* broadcastDeployment() on the root: one listen() of the loop, one turn for
\* every instance but the root; it serves the request at the head of the queue
RootBroadcastListen ==
  /\ requestPc = "broadcast"
  /\ abortCode = 0
  /\ Len(deploymentsServed) < Len(hosts) - 1
  /\ rpcRequests[RootInstance] # <<>>
  /\ LET rpc == Head(rpcRequests[RootInstance])
     IN /\ rpcReturnValue' =
              [rpcReturnValue EXCEPT ![rpc.requester] = rpcTarget(rpc.name, RootInstance)]
        /\ deploymentsServed' = Append(deploymentsServed,
              [name |-> rpc.name, requester |-> rpc.requester,
               pairings |-> instanceDeployment[RootInstance].pairings])
  /\ rpcRequests' = [rpcRequests EXCEPT ![RootInstance] = Tail(@)]
  /\ UNCHANGED <<instancePc, rootGlobalTopology, instanceDeployment, initialRuns>>
  /\ UNCHANGED requestVars
  /\ UNCHANGED notBroadcastVars

\* the root after the loop of broadcastDeployment(): identifyLocalInstance()
\* and runInitialFunction()
RootRunInitialFunction ==
  /\ requestPc = "broadcast"
  /\ abortCode = 0
  /\ Len(deploymentsServed) = Len(hosts) - 1
  /\ LET local == runLocalInstance(instanceDeployment[RootInstance], RootInstance)
     IN /\ requestPc' = local.pc
        /\ abortCode' = local.abort
        /\ initialRuns' = [initialRuns EXCEPT ![RootInstance] = @ \o local.run]
  /\ UNCHANGED <<request, hosts, requestFunctions, pairings, launched>>
  /\ UNCHANGED <<instancePc, rpcRequests, rpcReturnValue, rootGlobalTopology,
                 instanceDeployment, deploymentsServed>>
  /\ UNCHANGED notBroadcastVars

\* broadcastDeployment() on an instance that is not the root: it takes the
\* return value of Get Deployment and builds its _deployment from the text
MemberReceive(j) ==
  /\ j \in NonRootInstances
  /\ abortCode = 0
  /\ instancePc[j] = "wait"
  /\ rpcReturnValue[j] # NoReturnValue
  /\ LET d == DeploymentFromJson(parseDeployment(stringOf(rpcReturnValue[j])))
     IN IF "thrown" \in DOMAIN d
        THEN /\ instancePc' = [instancePc EXCEPT ![j] = "threw"]
             /\ UNCHANGED instanceDeployment
        ELSE /\ instancePc' = [instancePc EXCEPT ![j] = "identify"]
             /\ instanceDeployment' = [instanceDeployment EXCEPT ![j] = d]
  /\ rpcReturnValue' = [rpcReturnValue EXCEPT ![j] = NoReturnValue]
  /\ UNCHANGED <<rpcRequests, rootGlobalTopology, deploymentsServed, initialRuns>>
  /\ UNCHANGED requestVars
  /\ UNCHANGED notBroadcastVars

\* initialDeployment() on an instance that is not the root, after the broadcast:
\* identifyLocalInstance() and runInitialFunction()
MemberRunInitialFunction(j) ==
  /\ j \in NonRootInstances
  /\ abortCode = 0
  /\ instancePc[j] = "identify"
  /\ LET local == runLocalInstance(instanceDeployment[j], j)
     IN /\ instancePc' = [instancePc EXCEPT ![j] = local.pc]
        /\ abortCode' = local.abort
        /\ initialRuns' = [initialRuns EXCEPT ![j] = @ \o local.run]
  /\ UNCHANGED <<request, hosts, requestFunctions, requestPc, pairings, launched>>
  /\ UNCHANGED <<rpcRequests, rpcReturnValue, rootGlobalTopology, instanceDeployment,
                 deploymentsServed>>
  /\ UNCHANGED notBroadcastVars

\* every instance is about to call deploy(request): nothing requested, nothing
\* gathered, no deployment anywhere
BroadcastInit ==
  /\ instancePc = [j \in BroadcastInstances |-> "listen"]
  /\ rpcRequests = [j \in BroadcastInstances |-> <<>>]
  /\ rpcReturnValue = [j \in BroadcastInstances |-> NoReturnValue]
  /\ rootGlobalTopology = <<>>
  /\ instanceDeployment = [j \in BroadcastInstances |-> NoDeployment]
  /\ deploymentsServed = <<>>
  /\ initialRuns = [j \in BroadcastInstances |-> <<>>]

\* the topologies of the requests and hosts that deploy(request) is run with on
\* every instance: a big host satisfies both requests, a small one only the small
BroadcastTopologySet == {smallTopology, bigTopology}

\* any request and any hosts over these topologies, and either both functions
\* registered or one only
BroadcastRequestInit ==
  /\ request \in SeqsUpTo({RequestedInstance(t, f) : t \in BroadcastTopologySet,
                                                     f \in FunctionNames}, MaxRequested)
  /\ hosts \in SeqsUpTo(BroadcastTopologySet, MaxGiven) \ {<<>>}
  /\ requestFunctions \in {FunctionNames, {"LeaderFc"}}
  /\ requestPc = "deploy"
  /\ pairings = <<>>
  /\ launched = <<>>
  /\ abortCode = 0

BroadcastIdle == BroadcastInit

(***************************************************************************)
(* Specifications                                                          *)
(***************************************************************************)
InitMatch == MatchInit /\ DeployIdle /\ ChanIdle /\ RequestIdle /\ RegisterIdle /\ CompatIdle
  /\ HandshakeIdle /\ GatherIdle /\ EntryIdle /\ ReservedIdle /\ BroadcastIdle

NextMatch == Match

SpecMatch == InitMatch /\ [][NextMatch]_vars

InitDeploy == MatchIdle /\ DeployInit /\ ChanIdle /\ RequestIdle /\ RegisterIdle /\ CompatIdle
  /\ HandshakeIdle /\ GatherIdle /\ EntryIdle /\ ReservedIdle /\ BroadcastIdle

NextDeploy ==
  \/ \E i \in Instances : CallDeploy(i)
  \/ Dispatch
  \/ RunInitialFunction
  \/ \E i \in Instances : Listen(i)
  \/ \E i \in Instances : EntryReturns(i)

SpecDeploy == InitDeploy /\ [][NextDeploy]_vars

\* every instance is a running process that calls deploy and goes on with what
\* it can do; a request sent is delivered; every entry function returns
SpecDeployFair ==
  /\ SpecDeploy
  /\ \A i \in Instances : WF_vars(CallDeploy(i))
  /\ WF_vars(Dispatch)
  /\ WF_vars(RunInitialFunction)
  /\ \A i \in Instances : WF_vars(Listen(i))
  /\ \A i \in Instances : WF_vars(EntryReturns(i))

InitDeployAny == MatchIdle /\ DeployAnyInit /\ ChanIdle /\ RequestIdle /\ RegisterIdle /\ CompatIdle
  /\ HandshakeIdle /\ GatherIdle /\ EntryIdle /\ ReservedIdle /\ BroadcastIdle

SpecDeployAny == InitDeployAny /\ [][NextDeploy]_vars

InitChan == MatchIdle /\ DeployIdle /\ ChanInit /\ RequestIdle /\ RegisterIdle /\ CompatIdle
  /\ HandshakeIdle /\ GatherIdle /\ EntryIdle /\ ReservedIdle /\ BroadcastIdle

NextChan ==
  \/ \E p \in Producers : PushCall(p)
  \/ \E p \in Producers : PushAcquire(p)
  \/ \E p \in Producers : PushWrite(p)
  \/ Peek
  \/ Pop

SpecChan == InitChan /\ [][NextChan]_vars

InitRequest == MatchIdle /\ DeployIdle /\ ChanIdle /\ RequestInit /\ RegisterIdle /\ CompatIdle
  /\ HandshakeIdle /\ GatherIdle /\ EntryIdle /\ ReservedIdle /\ BroadcastIdle

NextRequest ==
  \/ RequestDeploy
  \/ RequestMatching
  \/ \E j \in 1..Len(hosts) : RequestRunInitialFunction(j)

SpecRequest == InitRequest /\ [][NextRequest]_vars

InitRegister == MatchIdle /\ DeployIdle /\ ChanIdle /\ RequestIdle /\ RegisterInit /\ CompatIdle
  /\ HandshakeIdle /\ GatherIdle /\ EntryIdle /\ ReservedIdle /\ BroadcastIdle

NextRegister ==
  \/ \E name \in FunctionNames, fc \in Closures : RegisterFunction(name, fc)
  \/ \E name \in FunctionNames, fc \in Closures : RegisterFunctionOrAbort(name, fc)
  \/ \E name \in FunctionNames : InvokeLocal(name)
  \/ \E name \in FunctionNames : InvokeRPC(name)

SpecRegister == InitRegister /\ [][NextRegister]_vars

InitCompat ==
  MatchIdle /\ DeployIdle /\ ChanIdle /\ RequestIdle /\ RegisterIdle /\ CompatInit
  /\ HandshakeIdle /\ GatherIdle /\ EntryIdle /\ ReservedIdle /\ BroadcastIdle

NextCompat == CheckCompatibility

SpecCompat == InitCompat /\ [][NextCompat]_vars

InitHandshake ==
  MatchIdle /\ DeployIdle /\ ChanIdle /\ RequestIdle /\ RegisterIdle /\ CompatIdle
  /\ HandshakeInit /\ GatherIdle /\ EntryIdle /\ ReservedIdle /\ BroadcastIdle

NextHandshake ==
  \/ \E i \in InstanceIdxs : CreateChannelEnter(i)
  \/ \E i \in InstanceIdxs : FenceReturns(i)
  \/ \E i \in InstanceIdxs : PushRoleTest(i)
  \/ \E i \in InstanceIdxs : PeekRoleTest(i)
  \/ \E i \in InstanceIdxs : PopRoleTest(i)

SpecHandshake == InitHandshake /\ [][NextHandshake]_vars

\* every instance is a running process that has invoked createChannel, and the
\* transport lets an instance out of the fence once every instance has entered
SpecHandshakeFair ==
  /\ SpecHandshake
  /\ \A i \in InstanceIdxs : WF_vars(CreateChannelEnter(i))
  /\ \A i \in InstanceIdxs : WF_vars(FenceReturns(i))

InitGather ==
  MatchIdle /\ DeployIdle /\ ChanIdle /\ RequestIdle /\ RegisterIdle /\ CompatIdle
  /\ HandshakeIdle /\ GatherInit /\ EntryIdle /\ ReservedIdle /\ BroadcastIdle

NextGather ==
  \/ \E i \in Instances : GatherCall(i)
  \/ \E i \in Instances : GatherListen(i)
  \/ GatherRequest
  \/ GatherReceive

SpecGather == InitGather /\ [][NextGather]_vars

InitMain ==
  MatchIdle /\ DeployInit /\ ChanIdle /\ RequestIdle /\ RegisterIdle /\ CompatIdle
  /\ HandshakeIdle /\ GatherMainInit /\ EntryIdle /\ ReservedIdle /\ BroadcastIdle

NextMain ==
  \/ \E i \in Instances : GatherCall(i)
  \/ \E i \in Instances : GatherListen(i)
  \/ GatherRequest
  \/ GatherReceive
  \/ \E i \in Instances : MainCallDeploy(i)
  \/ Dispatch
  \/ RunInitialFunction
  \/ \E i \in Instances : Listen(i)
  \/ \E i \in Instances : EntryReturns(i)

SpecMain == InitMain /\ [][NextMain]_vars

NextRunnerId ==
  \/ NextDeploy
  \/ \E i \in Instances : GetRunnerId(i)

\* deploy with the entry functions of the deploy example, which call getRunnerId()
SpecRunnerId == InitDeploy /\ [][NextRunnerId]_vars

InitMessaging ==
  MatchIdle /\ MessagingInit /\ ChanIdle /\ RequestIdle /\ RegisterIdle /\ CompatIdle
  /\ HandshakeIdle /\ GatherIdle /\ EntryIdle /\ ReservedIdle /\ BroadcastIdle

NextMessaging ==
  \/ \E i \in Instances : CallDeploy(i)
  \/ Dispatch
  \/ RunInitialFunction
  \/ \E i \in Instances : Listen(i)
  \/ CoordinatorFc
  \/ \E i \in Instances : WorkerFc(i)

\* every instance is a running process that calls deploy and goes on with what
\* it can do; a request sent is delivered
SpecMessaging ==
  /\ InitMessaging /\ [][NextMessaging]_vars
  /\ \A i \in Instances : WF_vars(CallDeploy(i))
  /\ WF_vars(Dispatch)
  /\ WF_vars(RunInitialFunction)
  /\ \A i \in Instances : WF_vars(Listen(i))
  /\ WF_vars(CoordinatorFc)
  /\ \A i \in Instances : WF_vars(WorkerFc(i))

\* deploy(request) called on every instance; no instance stops while one of them
\* can take a step (every behaviour ends, so each instance gets its steps)
InitBroadcast ==
  MatchIdle /\ DeployIdle /\ ChanIdle /\ BroadcastRequestInit /\ RegisterIdle /\ CompatIdle
  /\ HandshakeIdle /\ GatherIdle /\ EntryIdle /\ ReservedIdle /\ BroadcastInit

NextBroadcast ==
  \/ RequestDeploy
  \/ GatherOwn
  \/ GatherLaunch
  \/ GatherTake
  \/ \E j \in BroadcastInstances : MemberListen(j)
  \/ \E j \in BroadcastInstances : MemberRequest(j)
  \/ RootMatching
  \/ RootBroadcastListen
  \/ RootRunInitialFunction
  \/ \E j \in BroadcastInstances : MemberReceive(j)
  \/ \E j \in BroadcastInstances : MemberRunInitialFunction(j)

\* the root can make the matching: ENABLED <<RootMatching>>_vars written out
RootMatchingEnabled ==
  /\ requestPc = "matching"
  /\ abortCode = 0
  /\ Len(rootGlobalTopology) = Len(hosts)

\* instance j can take its deployment: ENABLED <<MemberReceive(j)>>_vars written out
MemberReceiveEnabled(j) ==
  /\ j \in NonRootInstances
  /\ abortCode = 0
  /\ instancePc[j] = "wait"
  /\ rpcReturnValue[j] # NoReturnValue

\* the steps other than the matching and the taking of a deployment
NextBroadcastStep ==
  \/ RequestDeploy
  \/ GatherOwn
  \/ GatherLaunch
  \/ GatherTake
  \/ \E j \in BroadcastInstances : MemberListen(j)
  \/ \E j \in BroadcastInstances : MemberRequest(j)
  \/ RootBroadcastListen
  \/ RootRunInitialFunction
  \/ \E j \in BroadcastInstances : MemberRunInitialFunction(j)

\* weak fairness on every step: no instance stops while it can take a step.
\* RootMatching and MemberReceive(j) stay enabled until they are taken or the
\* program is aborted, and are disabled afterwards, so that weak fairness on
\* them is []<>~ENABLED
SpecBroadcast ==
  /\ InitBroadcast
  /\ [][NextBroadcast]_vars
  /\ WF_vars(NextBroadcastStep)
  /\ []<>~RootMatchingEnabled
  /\ \A j \in BroadcastInstances : []<>~MemberReceiveEnabled(j)

InitReserved ==
  MatchIdle /\ DeployIdle /\ ChanIdle /\ RequestIdle /\ RegisterIdle /\ CompatIdle
  /\ HandshakeIdle /\ GatherIdle /\ EntryIdle /\ ReservedInit /\ BroadcastIdle

NextReserved ==
  \/ Initialize
  \/ \E name \in TargetNames, fc \in Closures : RegisterAnyName(name, fc)

SpecReserved == InitReserved /\ [][NextReserved]_vars

(***************************************************************************)
(* Claims on deploy                                                        *)
(***************************************************************************)
\* every instance has called deploy and nothing is left to do: each instance has
\* returned from deploy or waits in listen() with no request pending
DeployQuiescent ==
  \A i \in Instances :
     \/ deployPc[i] \in {"returned", "threw", "fatal"}
     \/ deployPc[i] = "listening" /\ pendingRPCs[i] = <<>>

\* the entry e was started on instance i for the runner at position k
StartedFor(i, e, k) ==
  /\ runners[k].instanceId = i
  /\ runners[k].function = e.function
  /\ runners[k].id = e.runnerId

RequestIssuedFor(k) ==
  \E n \in 1..Len(requestsIssued) :
     requestsIssued[n] = [target |-> runners[k].instanceId,
                          function |-> runners[k].function,
                          argument |-> runners[k].id]

CoordinatorHasRunner ==
  \E k \in 1..Len(runners) : runners[k].instanceId = coordinatorInstanceId

\* C2: when the coordinator's entry function has started, a request has been
\* issued for every runner of another instance; without a runner of its own the
\* coordinator starts no entry function
C2_LocalRunsLast ==
  /\ executed[coordinatorInstanceId] # <<>> =>
        \A k \in 1..Len(runners) :
           runners[k].instanceId # coordinatorInstanceId => RequestIssuedFor(k)
  /\ ~CoordinatorHasRunner => executed[coordinatorInstanceId] = <<>>

\* the coordinator's runner is met first in the loop, before two remote runners,
\* and its entry function has started
C2_Witness ==
  /\ Len(runners) = 3
  /\ runners[1].instanceId = coordinatorInstanceId
  /\ executed[coordinatorInstanceId] # <<>>
  /\ Len(requestsIssued) = 2

\* the coordinator has returned from deploy without a runner of its own
C2_WitnessNoRunner ==
  /\ Len(runners) = 2
  /\ ~CoordinatorHasRunner
  /\ deployPc[coordinatorInstanceId] = "returned"

(***************************************************************************)
(* Claims on deploy with deployments that need not be valid                *)
(***************************************************************************)
DuplicateRunnerIds ==
  \E k1, k2 \in 1..Len(runners) : k1 # k2 /\ runners[k1].id = runners[k2].id

DuplicateInstanceIds ==
  \E k1, k2 \in 1..Len(runners) : k1 # k2 /\ runners[k1].instanceId = runners[k2].instanceId

\* deploy on instance i has neither issued a request nor started an entry
\* function nor returned normally
DeployFailedOrNotBegun(i) == deployPc[i] \in {"start", "threw"} /\ executed[i] = <<>>

RequestsTo(i) == {n \in 1..Len(requestsIssued) : requestsIssued[n].target = i}

\* C12: if two runners with distinct runner ids have the same instance id,
\* deploy fails and no request is issued to any instance, so that no instance is
\* sent two requests in one deployment
C12_DuplicateInstanceId ==
  /\ (DuplicateInstanceIds /\ ~DuplicateRunnerIds) =>
        /\ requestsIssued = <<>>
        /\ deployPc[coordinatorInstanceId] \notin {"running", "returned"}
  /\ \A i \in Instances : Cardinality(RequestsTo(i)) <= 1

\* ids and instance ids are pairwise distinct, every instance id is known
ValidDeployment ==
  /\ ~DuplicateRunnerIds
  /\ ~DuplicateInstanceIds
  /\ \A k \in 1..Len(runners) : runners[k].instanceId \in Instances

\* a runner names a function missing from the coordinator's function table
UnregisteredAtCoordinator ==
  \E k \in 1..Len(runners) :
     runners[k].function \notin registeredFunctions[coordinatorInstanceId]

\* C13: if any runner, remote or local, names a function that is not registered
\* on the coordinator, deploy on the coordinator fails and no request has been
\* issued to any instance
C13_UnknownFunctionBeforeDispatch ==
  UnregisteredAtCoordinator =>
     /\ requestsIssued = <<>>
     /\ deployPc[coordinatorInstanceId] \notin {"running", "returned"}

\* the runner at position k is one of a worker that has not registered its function
UnregisteredOnWorker(k) ==
  /\ runners[k].instanceId \in Instances \ {coordinatorInstanceId}
  /\ runners[k].function \notin registeredFunctions[runners[k].instanceId]

\* C14: when a runner of a valid deployment names a function that is not
\* registered on its worker, all functions being registered on the coordinator,
\* deploy on the coordinator does not end as a successful deployment does: it
\* neither starts the coordinator's entry function nor returns normally
C14_UnknownFunctionSurfaced ==
  (/\ ValidDeployment
   /\ ~UnregisteredAtCoordinator
   /\ \E k \in 1..Len(runners) : UnregisteredOnWorker(k))
     => deployPc[coordinatorInstanceId] \notin {"running", "returned"}

(***************************************************************************)
(* Claims on deploy(request)                                               *)
(***************************************************************************)
\* C15: a deployment that fails because the request cannot be matched or because
\* a function is not registered returns the error to the caller of deploy: the
\* transport's abort is not invoked for it
C15_NoAbortOnDeploymentError ==
  /\ abortCode # 0 - 4
  /\ abortCode # 0 - 8

(***************************************************************************)
(* Claims on checkCompatibility                                            *)
(***************************************************************************)
\* the requirement of the claim on one pair of devices
DeviceSatisfies(hostDevice, requiredDevice) ==
  /\ hostDevice.type = requiredDevice.type
  /\ SumSeq(hostDevice.memorySpaces) >= SumSeq(requiredDevice.memorySpaces)
  /\ hostDevice.computeResources >= requiredDevice.computeResources

\* some injective map of the required devices to host devices that satisfy them
InjectiveDeviceMapExists ==
  \E f \in [1..Len(requiredTopology) -> 1..Len(hostTopology)] :
     /\ \A r \in 1..Len(requiredTopology) :
           DeviceSatisfies(hostTopology[f[r]], requiredTopology[r])
     /\ \A r1, r2 \in 1..Len(requiredTopology) : r1 # r2 => f[r1] # f[r2]

\* C17: checkCompatibility returns true if and only if there is an injective
\* map from the required devices to host devices of the same type with at least
\* their memory and their compute resources, whatever the declaration order
C17_CompatibleIffInjectiveMap ==
  compatPc = "returned" => (compatible <=> InjectiveDeviceMapExists)

\* C18: a host whose topology is t satisfies the requirement t, for every
\* topology t, also with several devices of one type that differ in memory or
\* compute resources, in any declaration order of t
C18_Reflexive ==
  (compatPc = "returned" /\ hostTopology = requiredTopology) => compatible

\* a topology of three cpu devices, the second of which neither fits the first
\* nor is fitted by it, has been checked against itself
C18_Witness ==
  /\ compatPc = "returned"
  /\ hostTopology = requiredTopology
  /\ Len(hostTopology) = 3
  /\ hostTopology[1] = Device("cpu", <<32, 32>>, 2)
  /\ hostTopology[2] = Device("cpu", <<4>>, 4)
  /\ hostTopology[3] = Device("cpu", <<4>>, 1)
  /\ compatible

(***************************************************************************)
(* Claims on registerFunction                                              *)
(***************************************************************************)
\* the closure of the first successful registration of a name, if any
FirstRegistered(functionName) ==
  LET calls == {n \in 1..Len(registerCalls) :
                  /\ registerCalls[n].name = functionName
                  /\ registerCalls[n].outcome = "registered"}
  IN IF calls = {} THEN NoClosure
     ELSE registerCalls[CHOOSE n \in calls : \A l \in calls : n <= l].closure

\* C16: registerFunction(name, f2) after a successful registerFunction(name, f1)
\* fails as an error of that call only: the instance goes on, the function table
\* and the RPC targets keep f1, and every later invocation of name runs f1
C16_DuplicateNameKeepsFirst ==
  /\ ~InstanceAborted
  /\ \A name \in FunctionNames :
        /\ functionTable[name] = FirstRegistered(name)
        /\ rpcTargets[name] = FirstRegistered(name)
  /\ \A n \in 1..Len(invocations) :
        invocations[n].closure = FirstRegistered(invocations[n].name)

(***************************************************************************)
(* Claims on listen                                                        *)
(***************************************************************************)
\* the requests that listen() on instance i has taken from its queue
ServedBy(i) == Cardinality(RequestsTo(i)) - Len(pendingRPCs[i])

\* listen() on instance i has served a request
ListenServed(i) == deployPc[i] \in {"running", "returned"}

SuccessfulPushes == SumSeq([p \in Producers |-> Len(pushed[p])])

PushedBytes ==
  SumSeq([p \in Producers |-> SumSeq([k \in 1..Len(pushed[p]) |-> Len(pushed[p][k])])])

\* calls of pop that returned true, and the bytes of the tokens they removed
SuccessfulPops == Len(popped)

PoppedBytes == SumSeq([n \in 1..Len(popped) |-> popped[n].size])

\* C5: the number of successful pushes minus the number of successful pops is at
\* least 0 and at most buffer_capacity
C5_PendingWithinCapacity ==
  /\ SuccessfulPushes - SuccessfulPops >= 0
  /\ SuccessfulPushes - SuccessfulPops <= BufferCapacity

\* C6: the bytes of the tokens pushed and not yet popped never exceed buffer_size,
\* and a push whose payload did not fit in the free payload bytes wrote nothing
C6_PayloadWithinSize ==
  /\ PushedBytes - PoppedBytes <= BufferSize
  /\ \A p \in Producers :
        (lastPush[p].reachedWrite /\ lastPush[p].freeAtWrite < lastPush[p].size)
           => ~lastPush[p].published

\* the producer and the call a token's first byte names
ProducerOf(bytes) == bytes[1] \div 10

CallOf(bytes) == bytes[1] % 10

\* the tokens the consumer obtained from producer p, in the order it obtained them
RECURSIVE ObtainedFrom(_, _)
ObtainedFrom(p, log) ==
  IF log = <<>> THEN <<>>
  ELSE (IF ProducerOf(Head(log).bytes) = p THEN <<Head(log).bytes>> ELSE <<>>)
       \o ObtainedFrom(p, Tail(log))

\* every pop so far came after a successful peek of the token it removed
PeekPopPairs == \A n \in 1..Len(popped) : popped[n].peeked

\* every token pushed has been popped
Drained == pendingTokens = 0 /\ \A p \in Producers : pushPc[p] = "idle"

IsPrefix(s, t) == Len(s) <= Len(t) /\ \A k \in 1..Len(s) : s[k] = t[k]

\* C7: the tokens of producer p that the consumer obtains by peek/pop pairs are,
\* in order, size and content, the tokens of p's successful pushes: at any time
\* the first of them, and all of them once the channel is drained
C7_PerProducerSequence ==
  PeekPopPairs =>
     \A p \in Producers :
        /\ IsPrefix(ObtainedFrom(p, popped), pushed[p])
        /\ Drained => ObtainedFrom(p, popped) = pushed[p]

\* C8: every token the consumer obtains equals, in size and byte for byte, one
\* token pushed by one producer, and the tokens of one producer are obtained in
\* the order of its pushes
C8_WholeTokensInOrder ==
  PeekPopPairs =>
     /\ \A n \in 1..Len(popped) :
           /\ Len(popped[n].bytes) = popped[n].size
           /\ \E p \in Producers : \E k \in 1..Len(pushed[p]) :
                 popped[n].bytes = pushed[p][k]
     /\ \A n1, n2 \in 1..Len(popped) :
           (n1 < n2 /\ ProducerOf(popped[n1].bytes) = ProducerOf(popped[n2].bytes))
              => CallOf(popped[n1].bytes) < CallOf(popped[n2].bytes)

\* the tokens pending and the payload bytes free when the last push of p settled
\* its result: at its write under the lock if it came to it, else at its test
PendingAtPush(p) ==
  IF lastPush[p].reachedWrite THEN lastPush[p].pendingAtWrite
  ELSE lastPush[p].pendingAtTest

FreeAtPush(p) ==
  IF lastPush[p].reachedWrite THEN lastPush[p].freeAtWrite ELSE lastPush[p].freeAtTest

\* C9: a push made when buffer_capacity tokens were pending, or fewer payload
\* bytes were free than its payload has, returns false and publishes nothing;
\* any other push returns true and publishes its token
C9_PushWouldBlock ==
  \A p \in Producers :
     lastPush[p].returned # "none" =>
        IF PendingAtPush(p) = BufferCapacity \/ FreeAtPush(p) < lastPush[p].size
        THEN lastPush[p].returned = "false" /\ ~lastPush[p].published
        ELSE lastPush[p].returned = "true" /\ lastPush[p].published

\* C10: no push that passed the fullness test finds the channel full when,
\* holding the lock, it comes to write
C10_TestAndWriteUnderOneLock ==
  \A p \in Producers : ~lastPush[p].foundFull

\* the rings and the counters of the channel, on the consumer and on the producers
channelState ==
  <<tokenSizeBuffer, payloadBuffer, coordinationForSizes, coordinationForPayloads,
    producerCoordination>>

\* a step of peek that returned something else than the peek before it
PeekStep == lastPeek' # lastPeek /\ popped' = popped

\* the bytes of the payload buffer in the range the last peek returned are the
\* bytes it returned
PeekedRangeUntouched ==
  lastPeek.success =>
     \A k \in 1..lastPeek.size :
        lastPeek.position + k - 1 < BufferSize =>
           payloadBuffer[lastPeek.position + k - 1] = lastPeek.bytes[k]

\* C22: peek changes no channel state; consecutive peeks without a pop in
\* between return the same position, length and bytes; and no push between a
\* successful peek and the next pop modifies the bytes in the range that peek
\* returned
C22_PeekChangesNothing ==
  /\ [][PeekStep => UNCHANGED channelState]_vars
  /\ [][(lastPeek.success /\ lastPeek'.success) => lastPeek' = lastPeek]_vars
  /\ []PeekedRangeUntouched

\* the tails of the two coordination buffers, which only the consumer advances
consumerCounters == <<coordinationForSizes.tail, coordinationForPayloads.tail>>

\* the entry of the sizes ring for the oldest pending token
OldestToken == tokenSizeBuffer[coordinationForSizes.tail % BufferCapacity]

\* the oldest pending token begins where the payload ring's pending bytes begin
OldestTokenAtPayloadTail ==
  ~isEmpty => OldestToken.position = coordinationForPayloads.tail % BufferSize

OneProducerCalls(p, n) ==
  /\ \A q \in Producers : pushCalls[q] = IF q = p THEN n ELSE 0
  /\ pushPc[p] = "idle"
  /\ lastPush[p].size = 1
  /\ \A k \in 1..Len(pushed[p]) : Len(pushed[p][k]) = 1

\* C25: with one producer and capacity 2, after two successful pushes a third
\* push returns WouldBlock and leaves no trace; peek then yields the first
\* pushed token; after one pop a push succeeds again and peek yields the
\* second pushed token.  In general a push returns WouldBlock only when, at
\* its test, buffer_capacity tokens are pending or its token does not fit: a
\* pop of one token makes a later push of a token that fits succeed
C25_PopMakesRoom ==
  /\ \A p \in Producers :
        (OneProducerCalls(p, 3) /\ popped = <<>>) =>
           /\ lastPush[p].returned = "false"
           /\ Len(pushed[p]) = 2 /\ pendingTokens = 2
           /\ lastPeek.success => lastPeek.bytes = pushed[p][1]
  /\ \A p \in Producers :
        (OneProducerCalls(p, 4) /\ Len(popped) = 1 /\ lastPush[p].pendingAtTest = 1) =>
           /\ lastPush[p].returned = "true" /\ lastPush[p].published
           /\ Len(pushed[p]) = 3
           /\ lastPeek.success => lastPeek.bytes = pushed[p][2]
  /\ \A p \in Producers :
        lastPush[p].returned = "false" =>
           \/ lastPush[p].pendingAtTest = BufferCapacity
           \/ lastPush[p].freeAtTest < lastPush[p].size

\* C30: no channel operation waits for an operation of another instance. peek
\* and pop can be taken in every state and are done in one step; a call of push
\* can be made whenever the producer is not inside one, and returns at once when
\* the channel is found full; a push under way waits for nothing but the lock,
\* which only a producer inside push holds, and that producer can go on
\* whatever the consumer does
C30_NeverWaits ==
  /\ ENABLED Peek
  /\ ENABLED Pop
  /\ \A p \in Producers :
        /\ (pushPc[p] = "idle" /\ SumSeq(pushCalls) < MaxPushCalls) => ENABLED PushCall(p)
        /\ (pushPc[p] = "pushing" /\ channelLock = 0) => ENABLED PushAcquire(p)
        /\ pushPc[p] = "locked" => (channelLock = p /\ ENABLED PushWrite(p))
        /\ lastPush[p].returned = "false" => (~lastPush[p].reachedWrite /\ pushPc[p] = "idle")
  /\ channelLock # 0 => pushPc[channelLock] = "locked"

C30_Witness ==
  /\ popped = <<>>
  /\ lastPeek = NoToken
  /\ \E p \in Producers :
        /\ lastPush[p].returned = "false"
        /\ pushPc[p] = "idle"
  /\ \E p \in Producers : Len(pushed[p]) >= 1 /\ lastPush[p].returned = "true"

(***************************************************************************)
(* Claims on the channel handshake                                         *)
(***************************************************************************)
\* instance index i has returned from createChannel after one exchange and one fence
HandshakeDone(i) ==
  /\ createChannelPc[i] = "returned"
  /\ exchangeCalls[i] = 1
  /\ fenceCalls[i] = 1

RegisteredBy(i) == {sl \in globalMemorySlots : sl.owner = i}

C24_WrongRole ==
  /\ [](\A i \in InstanceIdxs :
          /\ (i \notin producerIdxs /\ channelCalls[i]["push"] # "none")
                => channelCalls[i]["push"] = "threw"
          /\ (i # consumerIdx /\ channelCalls[i]["peek"] # "none")
                => channelCalls[i]["peek"] = "threw"
          /\ (i # consumerIdx /\ channelCalls[i]["pop"] # "none")
                => channelCalls[i]["pop"] = "threw")
  /\ [][(\E i \in InstanceIdxs : \E op \in ChannelOps :
            channelCalls[i][op] = "none" /\ channelCalls'[i][op] = "threw")
          => (UNCHANGED chanVars /\ UNCHANGED globalMemorySlots)]_vars

\* the consumer's push and a producer's peek and pop have thrown, and so have all
\* three on an instance with no role, while the producer's push has gone on
C24_Witness ==
  /\ consumerIdx = 0 /\ producerIdxs = {1}
  /\ channelCalls[0] = [op \in ChannelOps |-> IF op = "push" THEN "threw" ELSE "entered"]
  /\ channelCalls[1] = [op \in ChannelOps |-> IF op = "push" THEN "entered" ELSE "threw"]
  /\ channelCalls[2] = [op \in ChannelOps |-> "threw"]

(***************************************************************************)
(* Claims on gatherGlobalTopology                                          *)
(***************************************************************************)
\* instance i has started an entry function for a request served by listen()
ServedDispatch(i) == \E k \in 1..Len(executed[i]) : executed[i][k].via = "rpc"

\* in the queue of instance i no dispatch request is ahead of a Get Topology request
TopologyRequestsFirst(i) ==
  \A k, l \in 1..Len(pendingRPCs[i]) :
     (k < l /\ pendingRPCs[i][l].function = GetTopologyRPC)
        => pendingRPCs[i][k].function = GetTopologyRPC

\* C27: the requests of the coordinator to one worker are served in the order
\* they were issued: the listen() of gatherGlobalTopology serves Get Topology
\* and nothing else, the listen() of deploy serves a dispatch request and never
\* Get Topology, and a dispatch request is served only after Get Topology was
C27_ServedInOrder ==
  /\ [](\A i \in Instances :
          /\ gatherServed[i] \in {<<>>, <<GetTopologyRPC>>}
          /\ ServedDispatch(i) => gatherServed[i] = <<GetTopologyRPC>>
          /\ TopologyRequestsFirst(i)
          /\ (gatherPc[i] = "listening" /\ pendingRPCs[i] # <<>>)
                => Head(pendingRPCs[i]).function = GetTopologyRPC
          /\ (deployPc[i] = "listening" /\ pendingRPCs[i] # <<>>)
                => Head(pendingRPCs[i]).function \in FunctionNames)
  /\ [][\A i \in Instances :
          (deployPc[i] = "listening" /\ deployPc'[i] # "listening")
             => /\ Head(pendingRPCs[i]).function # GetTopologyRPC
                /\ gatherServed[i] = <<GetTopologyRPC>>]_vars

C27_Witness ==
  \E i \in Instances :
     /\ i # coordinatorInstanceId
     /\ gatherServed[i] = <<GetTopologyRPC>>
     /\ ServedDispatch(i)
     /\ deployPc[i] = "returned"

\* Get Topology requests the root has sent to instance i
RequestsSentTo(i) ==
  Cardinality({k \in 1..Len(topologyRequests) : topologyRequests[k] = i})

\* the root's loop has ended
GatherDone == gatherIdx > NumInstances

\* C28: the root sends exactly one Get Topology request to each instance of
\* instanceIds other than itself, none to itself, none to an instance outside
\* instanceIds, and returns one topology per instance of instanceIds
C28_OneRequestPerParticipant ==
  /\ \A i \in Instances :
        RequestsSentTo(i) <= (IF i \in instanceIds \ {rootInstanceId} THEN 1 ELSE 0)
  /\ GatherDone =>
        /\ \A i \in instanceIds \ {rootInstanceId} : RequestsSentTo(i) = 1
        /\ Len(globalTopology[rootInstanceId]) = Cardinality(instanceIds)

AssignedRunnerId(i) == {runners[k].id : k \in {l \in 1..Len(runners) : runners[l].instanceId = i}}

\* C31: inside an entry function, getRunnerId() returns the id of the runner
\* assigned to the instance it runs on, on workers and on the coordinator,
\* whichever instance is the coordinator
C31_RunnerIdIsAssigned ==
  \A i \in Instances : observedRunnerId[i] \subseteq AssignedRunnerId(i)

\* the entry function of the runner of instance i has run and returned
EntryReturned(i) == executed[i] # <<>> /\ deployPc[i] = "returned"

\* C32: when every worker's entry function spins on peek until the coordinator's
\* entry function has pushed a token to it, every entry function eventually
\* returns; and a runner is dispatched while entry functions dispatched before
\* it are still running
C32_EntryFunctionsReturn == <>(\A i \in RunnerInstances : EntryReturned(i))

C32_Witness ==
  /\ Len(runners) = 3
  /\ runners[1].instanceId # coordinatorInstanceId
  /\ \E i, j \in RunnerInstances \ {coordinatorInstanceId} :
        /\ i # j
        /\ runningFunction(i) = "WorkerFc" /\ entryChannel[i] = 0
        /\ runningFunction(j) = "WorkerFc" /\ entryChannel[j] = 1
  /\ runningFunction(coordinatorInstanceId) = "LeaderFc"

\* C33: for a valid deployment whose entry functions all return, deploy
\* eventually returns on every instance that called it, also on the instances
\* no runner is assigned to
C33_DeployReturns == <>(\A i \in Instances : deployPc[i] = "returned")

\* C34: if a runner names an instance the instance manager does not have, deploy
\* fails on the coordinator and no request has been issued for any runner, also
\* not for the runners ahead of it in the list
C34_UnknownInstanceBeforeDispatch ==
  (\E k \in 1..Len(runners) : runners[k].instanceId \notin Instances) =>
     /\ requestsIssued = <<>>
     /\ deployPc[coordinatorInstanceId] \notin {"running", "returned"}

(***************************************************************************)
(* Claims on the reserved name                                             *)
(***************************************************************************)
\* initialize() has been called
Initialized == \E n \in 1..Len(reservedCalls) : reservedCalls[n].op = "initialize"

\* C35: once initialize() has been called, the reserved name resolves to the
\* built-in closure, whatever calls of registerFunction and initialize were
\* made, and a registerFunction with the reserved name made after initialize()
\* has failed
C35_ReservedTargetKept ==
  Initialized =>
     /\ rpcTargetMap[GetTopologyRPC] = BuiltInClosure
     /\ \A n, m \in 1..Len(reservedCalls) :
           (/\ n < m
            /\ reservedCalls[n].op = "initialize"
            /\ reservedCalls[m].op = "registerFunction"
            /\ reservedCalls[m].name = GetTopologyRPC)
              => reservedCalls[m].outcome # "registered"

(***************************************************************************)
(* Claims on the range returned by peek                                    *)
(***************************************************************************)
\* C36: the range of every successful peek lies inside the payload ring:
\* position + size is at most the size of the ring, also after the positions
\* have wrapped around
C36_PeekInsideRing ==
  lastPeek.success => lastPeek.position + lastPeek.size <= BufferSize

(***************************************************************************)
(* Claims on the number of instances in deploy(request)                    *)
(***************************************************************************)
\* the root has aborted on the number of instances
AbortedOnCount == requestPc = "aborted" /\ abortCode \in {0 - 2, 0 - 3}

\* C39: with K initial and N requested instances the root aborts when K > N
\* and when 1 < K < N, and then nothing has been matched and no initial function
\* has run; it goes on to the matching only when K = N, or when K = 1 and the
\* remaining instances have been created, which leaves at least N hosts; the
\* older deploy of part_018 goes on to the matching only when K = N
C39_InstanceCountChecked ==
  /\ [](AbortedOnCount =>
          /\ pairings = <<>>
          /\ \A j \in 1..Len(launched) : launched[j] = NoFunction)
  /\ [][requestPc = "deploy" =>
          LET K == Len(hosts)
              N == Len(request)
          IN /\ (K > N \/ (1 < K /\ K < N)) =>
                   (AbortedOnCount' /\ initialInstanceCountCheck(K, N) = "aborted")
             /\ requestPc' = "matching" =>
                   \/ K = N
                   \/ K = 1 /\ Len(hosts') >= N /\ hosts'[1] = hosts[1]
             /\ initialInstanceCountCheck(K, N) = "matching" => K = N]_vars

C39_Witness ==
  /\ AbortedOnCount
  /\ abortCode = 0 - 2
  /\ Len(hosts) = 2
  /\ Len(request) = 3

(***************************************************************************)
(* Claims on deploy(request) on every instance                             *)
(***************************************************************************)
\* every function the request names is registered
AllFunctionsRegistered == \A n \in 1..Len(request) : request[n].function \in requestFunctions

\* the requests the root has served for instance j in broadcastDeployment()
ServedFor(j) == {k \in 1..Len(deploymentsServed) : deploymentsServed[k].requester = j}

\* instance j holds the deployment of the root, which has a pairing for every
\* requested instance
HoldsRootDeployment(j) ==
  /\ instanceDeployment[j] = instanceDeployment[RootInstance]
  /\ instanceDeployment[j].request = request
  /\ Len(instanceDeployment[j].hosts) = Len(hosts)
  /\ instanceDeployment[j].pairings # <<>>
  /\ DOMAIN instanceDeployment[j].pairings = 1..Len(request)

\* C37: every request the root serves in broadcastDeployment() is a Get Deployment
\* request of another instance, served when performMatching has succeeded, with
\* the pairings it made (pairings is assigned by the successful matching and by
\* nothing else), and at most one is served per instance; an instance
\* that has a deployment has the one of the root, pairings included, and none
\* meets a deployment text without pairings; and once the matching has
\* succeeded, the functions being registered, every other instance comes to
\* hold the root's deployment, one request served for each
C37_DeploymentAfterMatching ==
  /\ [](\A k \in 1..Len(deploymentsServed) :
          /\ deploymentsServed[k].name = GetDeploymentRPC
          /\ deploymentsServed[k].requester \in NonRootInstances
          /\ requestPc \notin {"deploy", "matching"}
          /\ deploymentsServed[k].pairings = pairings
          /\ DOMAIN deploymentsServed[k].pairings = 1..Len(request)
          /\ deploymentsServed[k].pairings # <<>>
          /\ ServedFor(deploymentsServed[k].requester) = {k})
  /\ [](\A j \in NonRootInstances :
          /\ instanceDeployment[j] # NoDeployment => HoldsRootDeployment(j)
          /\ instancePc[j] # "threw")
  /\ (requestPc = "broadcast" /\ AllFunctionsRegistered)
        ~> (\A j \in NonRootInstances :
              HoldsRootDeployment(j) /\ Cardinality(ServedFor(j)) = 1)

C37_Witness ==
  /\ Len(hosts) = 3
  /\ Len(deploymentsServed) = 2
  /\ \A j \in NonRootInstances : HoldsRootDeployment(j)
  /\ instanceDeployment[RootInstance].pairings = <<1, 0, 2>>

\* every requested instance has had its initial function run once, on the host
\* paired with it, and every host has run one initial function
EveryInitialFunctionRunOnce ==
  /\ Len(pairings) = Len(request)
  /\ \A n \in 1..Len(request) :
        initialRuns[pairings[n] + 1] = <<[name |-> n, function |-> request[n].function]>>
  /\ \A j \in 1..Len(hosts) : Len(initialRuns[j]) = 1

\* C38: with as many initial instances as requested instances and the functions
\* registered, every instance calling deploy, either the matching does not
\* succeed (the root never gets to the broadcast) or every requested instance's
\* initial function comes to be run once on the host paired with it, every host
\* running one; and no host ever runs two
C38_InitialFunctionsRun ==
  /\ [](\A j \in BroadcastInstances : Len(initialRuns[j]) <= 1)
  /\ [](( /\ requestPc = "deploy"
          /\ Len(hosts) = Len(request)
          /\ AllFunctionsRegistered)
        => ([](requestPc # "broadcast") \/ <>EveryInitialFunctionRunOnce))

=============================================================================
